---- MODULE Spec2Model ----
(***************************************************************************)
(* CompressPhotoFast CLI: the decision-and-commit pipeline.                *)
(*                                                                         *)
(*   compression.py           ImageCompressor (compress_image,            *)
(*                            compress_image_safe, find_optimal_quality)   *)
(*   exif_handler.py          ExifHandler (marker, metadata)               *)
(*   multiprocessing_utils.py process_single_file (the pool's worker)      *)
(*   file_lock.py             FileLock                                     *)
(*                                                                         *)
(* The file system is a partial function from paths to file contents; a   *)
(* worker is a program counter plus its local variables; every file       *)
(* operation of the code is one step.  The image codec (Pillow) and the   *)
(* metadata library (piexif) are external: what they return is drawn      *)
(* from the outcomes they can produce.                                     *)
(*                                                                         *)
(* constants.py is not among the sources: the thresholds it defines are   *)
(* given representative values in an abstract size unit.                   *)
(***************************************************************************)
EXTENDS Integers, Sequences, FiniteSets, TLC

\* ------------------------------------------------------------- bounds
\* Largest size (abstract unit) of an encoder output and of a file the
\* pipeline runs are given.
MaxSize == 6
\* Largest size given to is_compression_efficient called on its own.
MaxOrig == 20
\* Largest number of files already in the output directory (pool runs).
MaxPre == 2
\* Lock model: number of ticks the clock can advance.
MaxTicks == 3
\* Marker functions: largest number of ":"-separated fields after the prefix
\* of a user comment found on a file.
MaxFields == 3
\* the number of files of a run is at most this
MaxFiles == 3
\* a process calls ProcessSafeStats.add_result at most this many times
MaxCalls == 2
\* the longest file name given to clean_double_extensions, in pieces
MaxName == 5
\* The time (seconds) at which the runs of the pipeline take place; the files
\* they find were last modified at OldTime or at StartTime.
StartTime == 7200
OldTime == 0

\* ---------------------------------------------- constants (constants.py)
MIN_PROCESSABLE_FILE_SIZE == 2
OPTIMUM_FILE_SIZE == 4
MIN_BYTES_SAVING == 2
MIN_COMPRESSION_SAVING_PERCENT == 30
\* MIN_COMPRESSION_RATIO, in percent
MIN_COMPRESSION_RATIO_PCT == 10
DEFAULT_COMPRESSION_QUALITY == 85
TIME_DIFFERENCE_ALLOWED_SECONDS == 60
EXIF_COMPRESSION_MARKER == "CompressPhotoFast_Compressed"
SUPPORTED_EXTENSIONS == {".jpg", ".png", ".heic"}

\* compress_image_safe: max_attempts = 100
max_attempts == 100
\* the quality written by the "not efficient" marker
NotEfficientQuality == 99
\* process_single_file: fallback when the quality search raises
FallbackQuality == 75

\* ------------------------------------------------------------- paths
\* A path is a record, so that file_path + ".bak" and the numbered output
\* names are computed, not enumerated.
File(d, e) == [kind |-> "file", dir |-> d, ext |-> e, n |-> 0, bak |-> FALSE]
\* os.path.join(output_dir, f"{name}_compressed{ext}") for n = 0 and
\* f"{name}_compressed_{n}{ext}" for n > 0; every input has base name "img".
Out(k, e) == [kind |-> "out", dir |-> "out", ext |-> e, n |-> k, bak |-> FALSE]
NoPath == [kind |-> "none", dir |-> "", ext |-> "", n |-> 0, bak |-> FALSE]
BakOf(p) == [p EXCEPT !.bak = TRUE]

Exists(fsys, p) == p \in DOMAIN fsys
Write(fsys, p, c) == [q \in (DOMAIN fsys) \cup {p} |-> IF q = p THEN c ELSE fsys[q]]
Remove(fsys, p) == [q \in (DOMAIN fsys) \ {p} |-> fsys[q]]

\* ---------------------------------------------------------- metadata
\* The user comment is a text, kept as the sequence of its characters; the
\* characters of the magic prefix (which has no ":") are kept as one element.
\* "x" stands for any character that is no digit, sign, blank or ":".
NoComment == << >>
DigitChars == << "0", "1", "2", "3", "4", "5", "6", "7", "8", "9" >>
Range(s) == {s[i] : i \in 1 .. Len(s)}

\* str(n), as the f-string formats an int
RECURSIVE Digits(_)
Digits(n) ==
  IF n < 10 THEN << DigitChars[n + 1] >>
  ELSE Digits(n \div 10) \o << DigitChars[(n % 10) + 1] >>
str(n) == IF n < 0 THEN << "-" >> \o Digits(0 - n) ELSE Digits(n)

\* (mutant) the two numbers are written in the other order
MarkerComment_Swapped(q, ts) ==
  << EXIF_COMPRESSION_MARKER, ":" >> \o str(ts) \o << ":" >> \o str(q)

\* add_compression_marker, lines 145 and 175:
\* f"{EXIF_COMPRESSION_MARKER}:{quality}:{timestamp}"
MarkerComment(q, ts) ==
  << EXIF_COMPRESSION_MARKER, ":" >> \o str(q) \o << ":" >> \o str(ts)

\* user_comment.split(":")
RECURSIVE split(_)
split(s) ==
  IF ":" \notin Range(s) THEN << s >>
  ELSE LET i == CHOOSE k \in 1 .. Len(s) :
                  s[k] = ":" /\ \A j \in 1 .. (k - 1) : s[j] # ":"
       IN << SubSeq(s, 1, i - 1) >> \o split(SubSeq(s, i + 1, Len(s)))

\* int(text): blanks around the number are dropped, a sign may lead, and one
\* digit at least follows; anything else raises ValueError.
RECURSIVE strip(_)
strip(s) ==
  IF s = << >> THEN s
  ELSE IF s[1] = " " THEN strip(Tail(s))
  ELSE IF s[Len(s)] = " " THEN strip(SubSeq(s, 1, Len(s) - 1))
  ELSE s
Unsigned(s) == IF s # << >> /\ s[1] \in {"+", "-"} THEN Tail(s) ELSE s
int_ok(s) ==
  LET d == Unsigned(strip(s)) IN d # << >> /\ Range(d) \subseteq Range(DigitChars)
RECURSIVE Value(_)
Value(d) ==
  IF d = << >> THEN 0
  ELSE 10 * Value(SubSeq(d, 1, Len(d) - 1))
         + (CHOOSE v \in 0 .. 9 : DigitChars[v + 1] = d[Len(d)])
int(s) ==
  LET t == strip(s) IN IF t[1] = "-" THEN 0 - Value(Unsigned(t)) ELSE Value(Unsigned(t))

NoExif == [ok |-> FALSE, tags |-> {}, comment |-> NoComment]
EmptyExif == [ok |-> TRUE, tags |-> {}, comment |-> NoComment]
CameraTags == {"Make", "DateTimeOriginal"}

\* ------------------------------------------------------ file contents
\* A file holds its image and EXIF block, and carries its modification time
\* (os.path.getmtime; the access time is read and set by the same calls).
\* Corrupt: what a write that failed part-way leaves, during a run.
Corrupt ==
  [fmt |-> "NONE", img |-> "", enc |-> 0, size |-> 0, exif |-> NoExif, mtime |-> StartTime]

\* os.path.getsize, 0 on OSError
get_file_size(fsys, p) == IF Exists(fsys, p) THEN fsys[p].size ELSE 0

\* piexif.load(file_path) behind "except Exception: return None": only a
\* JPEG with a readable EXIF block gives a dictionary.
read_exif_data(fsys, p) ==
  IF Exists(fsys, p) /\ fsys[p].fmt = "JPEG" /\ fsys[p].exif.ok
  THEN fsys[p].exif ELSE NoExif

\* user_comment.startswith(EXIF_COMPRESSION_MARKER)
StartsWithMarker(c) ==
  /\ Len(c) >= 1
  /\ c[1] = EXIF_COMPRESSION_MARKER

NotMarked == [is_marked |-> FALSE, quality |-> -1, timestamp |-> 0]

\* (mutant) a comment of more than three fields is refused
get_compression_info_Exact(fsys, p) ==
  LET e == read_exif_data(fsys, p)
      parts == split(e.comment)
  IN IF e.ok /\ StartsWithMarker(e.comment) /\ Len(parts) = 3
        /\ int_ok(parts[2]) /\ int_ok(parts[3])
     THEN [is_marked |-> TRUE, quality |-> int(parts[2]), timestamp |-> int(parts[3])]
     ELSE NotMarked

get_compression_info(fsys, p) ==
  LET e == read_exif_data(fsys, p) IN
  IF ~e.ok THEN NotMarked
  ELSE IF e.comment = NoComment THEN NotMarked
  ELSE IF ~StartsWithMarker(e.comment) THEN NotMarked
  ELSE LET parts == split(e.comment) IN
       IF Len(parts) >= 3 /\ int_ok(parts[2]) /\ int_ok(parts[3])
       THEN [is_marked |-> TRUE, quality |-> int(parts[2]),
             timestamp |-> int(parts[3])]
       ELSE NotMarked

is_image_compressed(fsys, p) == get_compression_info(fsys, p).is_marked

should_recompress(fsys, p) == ~get_compression_info(fsys, p).is_marked

is_already_small(size) == size < OPTIMUM_FILE_SIZE

\* ------------------------------------------------------- compression
HEIC(e) == e \in {".heic", ".heif"}

is_supported_file(p, heic_ok) ==
  IF HEIC(p.ext) /\ ~heic_ok THEN FALSE ELSE p.ext \in SUPPORTED_EXTENSIONS

is_processable(fsys, p) == get_file_size(fsys, p) >= MIN_PROCESSABLE_FILE_SIZE

\* (mutant) the percentage has to exceed the threshold
is_compression_efficient_Strict(original_size, compressed_size) ==
  IF original_size <= 0 THEN FALSE
  ELSE /\ (original_size - compressed_size) * 100
            > MIN_COMPRESSION_SAVING_PERCENT * original_size
       /\ original_size - compressed_size >= MIN_BYTES_SAVING

\* ((o - c) / o) * 100 >= MIN_COMPRESSION_SAVING_PERCENT, without the division
is_compression_efficient(original_size, compressed_size) ==
  IF original_size <= 0 THEN FALSE
  ELSE /\ (original_size - compressed_size) * 100
            >= MIN_COMPRESSION_SAVING_PERCENT * original_size
       /\ original_size - compressed_size >= MIN_BYTES_SAVING

\* --------------------------------------------------------- results
\* CompressionResult(success, original_size, compressed_size, saved_path,
\*                   message, metadata_preserved)
Result(ok, o, c, p, m, mp) ==
  [success |-> ok, original_size |-> o, compressed_size |-> c,
   saved_path |-> p, message |-> m, metadata_preserved |-> mp]
NoResult == Result(FALSE, 0, 0, NoPath, "", TRUE)

MsgNotEfficientPng == "Compression not efficient (marker added to original)"
MsgNotEfficient == "Compression not efficient (marker added with metadata)"
\* "not efficient" in result.message.lower()
SaysNotEfficient(m) == m \in {MsgNotEfficientPng, MsgNotEfficient}

\* the tuple process_single_file returns:
\* (file_info, result, skipped, skip_reason, error_message)
Ret(has, res, sk, why, err) ==
  [has_result |-> has, result |-> res, skipped |-> sk, skip_reason |-> why,
   error |-> err]
NoRet == Ret(FALSE, NoResult, FALSE, "", "")

\* find_optimal_quality: qualities = [70, 60, 80, 50, 90]
qualities == << 70, 60, 80, 50, 90 >>

\* ---------------------------------------------------------- the state
VARIABLES
  fs,      \* the file system: path -> contents, for the paths that exist
  heic,    \* HEIC_SUPPORT_AVAILABLE
  now,     \* the clock (milliseconds for markers, ticks for the lock)
  pc,      \* per worker: where it is in process_single_file
  loc,     \* per worker: its local variables
  ghost,   \* per worker: history used by the properties only
  lockfile, \* FileLock: the ".lock" file, its mtime when it exists
  lk,      \* FileLock: per process, its position and locals
  call     \* a function called on its own: its arguments and what it returned

vars == << fs, heic, now, pc, loc, ghost, lockfile, lk, call >>
lockvars == << lockfile, lk >>
workvars == << fs, heic, pc, loc, ghost >>

Workers == {1, 2}

\* validate_exif_preservation looks a tag up with source_exif[ifd].get(name),
\* name a string, in a dictionary piexif keys by the tags' integer ids: the
\* lookup finds nothing, in the source and in the target.
TagPresentByName(exif, name) == FALSE

\* the critical tags compress_image finds in the source and not in the output
LostTags(src, tgt) ==
  {t \in CameraTags : TagPresentByName(src, t) /\ ~TagPresentByName(tgt, t)}

\* ExifHandler.add_compression_marker(file_path, quality, source_exif): the
\* file system afterwards.  io_ok: piexif.dump and the write of piexif.insert
\* succeed.  With a source block the file's EXIF becomes the source's groups
\* plus the marker; without, the file's own block (or an empty one) plus the
\* marker.  piexif.insert raises on a file that is not a JPEG.  ts is
\* datetime.now().timestamp(): the marker carries int(ts * 1000), and the
\* file, rewritten by piexif.insert, is modified at ts.
MarkerWritten(fsys, p, io_ok) == Exists(fsys, p) /\ fsys[p].fmt = "JPEG" /\ io_ok

\* on a JPEG file piexif.dump and piexif.insert succeed or fail (io_ok)
MarkerOutcomes(fsys, p) ==
  IF Exists(fsys, p) /\ fsys[p].fmt = "JPEG" THEN BOOLEAN ELSE {TRUE}

\* (mutant) the tags of the file are kept beside those of the source block
add_compression_marker_Merge(fsys, p, q, src, ts, io_ok) ==
  IF ~MarkerWritten(fsys, p, io_ok) THEN fsys
  ELSE LET own == read_exif_data(fsys, p)
           tags == IF src.ok THEN src.tags \cup own.tags ELSE own.tags
       IN Write(fsys, p, [fsys[p] EXCEPT
            !.exif = [ok |-> TRUE, tags |-> tags, comment |-> MarkerComment(q, ts * 1000)],
            !.mtime = ts])

add_compression_marker(fsys, p, q, src, ts, io_ok) ==
  IF ~MarkerWritten(fsys, p, io_ok) THEN fsys
  ELSE LET own == read_exif_data(fsys, p)
           tags == IF src.ok THEN src.tags ELSE own.tags
       IN Write(fsys, p, [fsys[p] EXCEPT
            !.exif = [ok |-> TRUE, tags |-> tags, comment |-> MarkerComment(q, ts * 1000)],
            !.mtime = ts])

\* ------------------------------------------------- worker's locals
\* file, size: file_info.path, file_info.size (the size found by the scan)
\* quality, replace, force: the arguments of process_single_file
InitLoc(f, sz, q, r, fo) ==
  [file |-> f, size |-> sz, quality |-> q, replace |-> r, force |-> fo,
   run |-> 1,
   actual_quality |-> 0,
   \* find_optimal_quality
   fo_size |-> 0, qi |-> 1, best_quality |-> 0, best_c |-> 0, probes |-> 0,
   \* compress_image_safe
   safe_size |-> 0, output_path |-> NoPath, counter |-> 1, attempt |-> 0,
   \* compress_image
   ci_out |-> NoPath, ci_size |-> 0, ci_img |-> "", ci_fmt |-> "",
   source_exif |-> NoExif, exif_bytes |-> FALSE, compressed_size |-> 0,
   result |-> NoResult,
   ret |-> NoRet]

\* a worker that is given no file
IdleLoc == InitLoc(NoPath, 0, 0, FALSE, FALSE)

InitGhost ==
  [pre |-> Corrupt,        \* the file's contents when compress_image_safe began
   existed |-> FALSE,      \* ... and whether it existed
   backed |-> FALSE,       \* shutil.copy2 to the .bak path has completed
   committed |-> FALSE,    \* the success branch has been taken (os.remove of .bak)
   copy_failed |-> FALSE,  \* shutil.copy2 raised
   touched |-> FALSE,      \* a step of the call has written or replaced the original path
   outdir0 |-> {},         \* the output files that existed when the call began
   restored |-> "none",    \* shutil.move of the .bak: "ok", "failed"
   chosen |-> NoPath,      \* copy mode: the output path the name search settled on
   compressed |-> FALSE,   \* compress_image was entered
   after1 |-> Corrupt,     \* the file's contents when run 1 returned
   ok1 |-> FALSE,          \* run 1 returned success with a saved path
   q1 |-> 0,               \* the quality run 1 used
   bak0 |-> FALSE,         \* a .bak file was there when compress_image_safe began
   keep_probes |-> FALSE,  \* the trials of find_optimal_quality are recorded
   probed |-> << >>,       \* ... in order: the quality and the size it gave (< 0: no result)
   fault |-> FALSE,        \* an operation of the call failed on an I/O or library error
   ci_exc |-> {},          \* the steps of compress_image that raised an exception
   stamp_failed |-> FALSE, \* add_compression_marker was called and returned False
   invoked |-> FALSE]      \* process_single_file has called compress_image_safe

\* process_single_file returns (file_info, result, False, "", "")
ReturnResult(w, res) ==
  /\ pc' = [pc EXCEPT ![w] = "returned"]
  /\ loc' = [loc EXCEPT ![w].result = res,
                        ![w].ret = Ret(TRUE, res, FALSE, "", "")]

\* where compress_image's caller continues: lines 330 and 393
AfterCompress(w, res) ==
  IF loc[w].replace
  THEN IF ~res.success \/ res.saved_path = NoPath THEN "restore" ELSE "commit"
  ELSE IF res.success /\ res.saved_path # NoPath THEN "dates_out" ELSE "returned"

LeaveCompress(w, res) ==
  /\ pc' = [pc EXCEPT ![w] = AfterCompress(w, res)]
  /\ loc' = [loc EXCEPT ![w].result = res,
                        ![w].ret = IF AfterCompress(w, res) = "returned"
                                   THEN Ret(TRUE, res, FALSE, "", "")
                                   ELSE loc[w].ret]

\* ------------------------------------------------ process_single_file
\* (mutant) the skip check is made whatever force says
SkipCheck_Forced(w) ==
  /\ pc[w] = "start"
  /\ LET l == loc[w]
         marked == is_image_compressed(fs, l.file) /\ ~should_recompress(fs, l.file)
         why == IF marked THEN "Already compressed"
                ELSE IF is_already_small(l.size) THEN "Already small"
                ELSE ""
     IN IF why # ""
        THEN /\ pc' = [pc EXCEPT ![w] = "returned"]
             /\ loc' = [loc EXCEPT ![w].ret = Ret(FALSE, NoResult, TRUE, why, "")]
        ELSE /\ pc' = [pc EXCEPT ![w] = "safe"]
             /\ loc' = [loc EXCEPT ![w].actual_quality = l.quality]
  /\ UNCHANGED << fs, heic, now, ghost, lockvars, call >>

\* The skip check, lines 277-288 (and 323-331 when the file is skipped).
SkipCheck(w) ==
  /\ pc[w] = "start"
  /\ LET l == loc[w]
         marked == is_image_compressed(fs, l.file) /\ ~should_recompress(fs, l.file)
         why == IF l.force THEN ""
                ELSE IF marked THEN "Already compressed"
                ELSE IF is_already_small(l.size) THEN "Already small"
                ELSE ""
     IN IF why # ""
        THEN /\ pc' = [pc EXCEPT ![w] = "returned"]
             /\ loc' = [loc EXCEPT ![w].ret = Ret(FALSE, NoResult, TRUE, why, "")]
        ELSE IF l.quality = 0
        THEN /\ pc' = [pc EXCEPT ![w] = "probe"]
             /\ loc' = [loc EXCEPT ![w].fo_size = get_file_size(fs, l.file),
                                   ![w].qi = 1,
                                   ![w].best_quality = DEFAULT_COMPRESSION_QUALITY,
                                   ![w].best_c = get_file_size(fs, l.file),
                                   ![w].probes = 0]
        ELSE /\ pc' = [pc EXCEPT ![w] = "safe"]
             /\ loc' = [loc EXCEPT ![w].actual_quality = l.quality]
  /\ UNCHANGED << fs, heic, now, ghost, lockvars, call >>

\* test_compression(file_path, quality): -2 "File too small" (success False),
\* -1 None (the image cannot be opened or encoded), else the size of the
\* encoder's output.
TrialOutcomes(fsys, p, heic_ok) ==
  IF get_file_size(fsys, p) < MIN_PROCESSABLE_FILE_SIZE THEN {-2}
  ELSE IF ~Exists(fsys, p) \/ fsys[p].fmt = "NONE" \/ (fsys[p].fmt = "HEIF" /\ ~heic_ok)
  THEN {-1}
  ELSE {-1} \cup (1 .. MaxSize)

\* (mutant) the floor on the ratio is not tested
IsBetter_NoFloor(c, best_c, o) == c < best_c

\* Line 163: ratio < best_ratio and ratio >= MIN_COMPRESSION_RATIO, the ratios
\* over the common denominator original_size
IsBetter(c, best_c, o) == c < best_c /\ c * 100 >= MIN_COMPRESSION_RATIO_PCT * o

\* (mutant) the search never stops early
GoodEnough_Never(c, o) == FALSE

\* Line 167: ratio < 0.3
GoodEnough(c, o) == c * 10 < 3 * o

\* One iteration of find_optimal_quality's loop, lines 158-168; ratios are
\* compared as sizes over the common denominator original_size (best_ratio
\* 1.0 is best_c = original_size).  A division by an original_size of 0
\* raises, and process_single_file falls back to 75 (lines 298-301).
Probe(w) ==
  /\ pc[w] = "probe"
  /\ \E c \in TrialOutcomes(fs, loc[w].file, heic) :
       LET l == loc[w]
           o == l.fo_size
           better == c >= 0 /\ IsBetter(c, l.best_c, o)
           bq == IF better THEN qualities[l.qi] ELSE l.best_quality
           bc == IF better THEN c ELSE l.best_c
           stop == (c >= 0 /\ GoodEnough(c, o)) \/ l.qi = Len(qualities)
       IN /\ ghost' = [ghost EXCEPT ![w].probed =
                         IF ghost[w].keep_probes
                         THEN Append(@, [q |-> qualities[l.qi], c |-> c]) ELSE @]
          /\ IF c >= 0 /\ o = 0
             THEN /\ pc' = [pc EXCEPT ![w] = "safe"]
                  /\ loc' = [loc EXCEPT ![w].actual_quality = FallbackQuality,
                                        ![w].probes = l.probes + 1]
             ELSE IF stop
             THEN /\ pc' = [pc EXCEPT ![w] = "safe"]
                  /\ loc' = [loc EXCEPT ![w].actual_quality = bq,
                                        ![w].best_quality = bq,
                                        ![w].best_c = 0,
                                        ![w].probes = l.probes + 1]
             ELSE /\ pc' = pc
                  /\ loc' = [loc EXCEPT ![w].qi = l.qi + 1,
                                        ![w].best_quality = bq,
                                        ![w].best_c = bc,
                                        ![w].probes = l.probes + 1]
  /\ UNCHANGED << fs, heic, now, lockvars, call >>

\* ------------------------------------------------ compress_image_safe
OutExt(e) == IF HEIC(e) THEN ".jpg" ELSE e

\* (mutant) no handler in process_single_file: the exception ends the worker's
\* call without a tuple
CompressionError_Raise(w) ==
  /\ pc' = [pc EXCEPT ![w] = "raised"]
  /\ loc' = [loc EXCEPT ![w].safe_size = get_file_size(fs, loc[w].file)]

\* process_single_file, lines 313-322: an exception of compress_image_safe
\* becomes (file_info, None, False, "", "Compression error: ...")
CompressionError(w) ==
  /\ pc' = [pc EXCEPT ![w] = "returned"]
  /\ loc' = [loc EXCEPT ![w].safe_size = get_file_size(fs, loc[w].file),
                        ![w].ret = Ret(FALSE, NoResult, FALSE, "", "Compression error")]

\* Lines 311-314 (replace mode) and 354-370 (copy mode).  os.makedirs is not
\* inside a try: its OSError leaves compress_image_safe and process_single_file
\* reports it (lines 313-322).  With exist_ok=True it cannot fail on a
\* directory that exists, which one holding files does.
SafeStart(w) ==
  /\ pc[w] = "safe"
  /\ LET l == loc[w] IN
     /\ ghost' = [ghost EXCEPT ![w].pre = IF Exists(fs, l.file) THEN fs[l.file] ELSE Corrupt,
                               ![w].existed = Exists(fs, l.file),
                               ![w].backed = FALSE,
                               ![w].committed = FALSE,
                               ![w].copy_failed = FALSE,
                               ![w].touched = FALSE,
                               ![w].outdir0 = {p \in DOMAIN fs : p.kind = "out"},
                               ![w].restored = "none",
                               ![w].compressed = FALSE,
                               ![w].chosen = NoPath,
                               ![w].bak0 = Exists(fs, BakOf(l.file)),
                               ![w].fault = FALSE,
                               ![w].stamp_failed = FALSE,
                               ![w].invoked = TRUE]
     /\ IF l.replace
        THEN /\ pc' = [pc EXCEPT ![w] = "backup"]
             /\ loc' = [loc EXCEPT ![w].safe_size = get_file_size(fs, l.file)]
        ELSE \E made \in (IF \E p \in DOMAIN fs : p.kind = "out" THEN {TRUE} ELSE BOOLEAN) :
             IF made
             THEN /\ pc' = [pc EXCEPT ![w] = "name_loop"]
                  /\ loc' = [loc EXCEPT ![w].safe_size = get_file_size(fs, l.file),
                                        ![w].output_path = Out(0, OutExt(l.file.ext)),
                                        ![w].counter = 1,
                                        ![w].attempt = 0]
             ELSE CompressionError(w)
  /\ UNCHANGED << fs, heic, now, lockvars, call >>

\* shutil.copy2(file_path, backup_path), lines 318-324.  A copy that fails
\* may have created the .bak file and written part of it.
CopyOutcomes(fsys, p) ==
  (IF Exists(fsys, p) THEN {"ok"} ELSE {}) \cup {"failed", "partial"}

\* (mutant) the copy creates the destination and writes nothing to it
copy2_Empty(fsys, src, dst) == Write(fsys, dst, Corrupt)

\* shutil.copy2(src, dst), completed
copy2(fsys, src, dst) == Write(fsys, dst, fsys[src])

\* (mutant) the failed copy is passed over and the compression goes on
BackupFailed_Continue(w) ==
  /\ pc' = [pc EXCEPT ![w] = "ci_check"]
  /\ loc' = [loc EXCEPT ![w].ci_out = loc[w].file]

\* Lines 320-324: the except branch returns the failure outcome.
BackupFailed(w) ==
  ReturnResult(w, Result(FALSE, loc[w].safe_size, 0, NoPath,
                         "Failed to create backup", TRUE))

Backup(w) ==
  /\ pc[w] = "backup"
  /\ LET l == loc[w]
         bak == BakOf(l.file)
     IN \E how \in CopyOutcomes(fs, l.file) :
          IF how = "ok"
          THEN /\ fs' = copy2(fs, l.file, bak)
               /\ pc' = [pc EXCEPT ![w] = "ci_check"]
               /\ loc' = [loc EXCEPT ![w].ci_out = l.file]
               /\ ghost' = [ghost EXCEPT ![w].backed = TRUE]
          ELSE /\ fs' = IF how = "partial" THEN Write(fs, bak, Corrupt) ELSE fs
               /\ BackupFailed(w)
               /\ ghost' = [ghost EXCEPT ![w].copy_failed = TRUE, ![w].fault = TRUE]
  /\ UNCHANGED << heic, now, lockvars, call >>

\* ----------------------------------------------------- compress_image
\* (mutant) no handler around the body: the caller gets no CompressionResult
ExceptionResult_Unhandled == NoResult

\* Lines 300-301: except Exception as e: CompressionResult(False, 0, 0, None,
\* f"Error: {str(e)}")
ExceptionResult == Result(FALSE, 0, 0, NoPath, "Error", TRUE)

\* Lines 180-194: the format and size checks, then original_size.
CICheck(w) ==
  /\ pc[w] = "ci_check"
  /\ LET l == loc[w] IN
     IF ~is_supported_file(l.file, heic)
     THEN LeaveCompress(w, Result(FALSE, 0, 0, NoPath,
            IF HEIC(l.file.ext) /\ ~heic
            THEN "HEIC/HEIF support not available. Install pillow-heif."
            ELSE "Unsupported file format", TRUE))
     ELSE IF ~is_processable(fs, l.file)
     THEN LeaveCompress(w, Result(FALSE, 0, 0, NoPath,
            "File too small for compression", TRUE))
     ELSE /\ pc' = [pc EXCEPT ![w] = "ci_open"]
          /\ loc' = [loc EXCEPT ![w].ci_size = get_file_size(fs, l.file)]
  /\ ghost' = [ghost EXCEPT ![w].compressed = TRUE, ![w].ci_exc = {}]
  /\ UNCHANGED << fs, heic, now, lockvars, call >>

\* Lines 196-217: Image.open and img.copy() decode the file (an exception
\* becomes the result of line 301), then the source's EXIF is read and
\* dumped; piexif.dump can fail on a block it has loaded.
CIOpen(w) ==
  /\ pc[w] = "ci_open"
  /\ LET l == loc[w] IN
     IF ~Exists(fs, l.file) \/ fs[l.file].fmt = "NONE"
     THEN /\ LeaveCompress(w, ExceptionResult)
          /\ ghost' = [ghost EXCEPT ![w].ci_exc = @ \cup {"decode"}]
     ELSE LET fmt == IF fs[l.file].fmt = "HEIF" THEN "JPEG" ELSE fs[l.file].fmt
              src == read_exif_data(fs, l.file)
          IN \E dumped \in (IF src.ok /\ fmt = "JPEG" THEN BOOLEAN ELSE {FALSE}) :
               /\ pc' = [pc EXCEPT ![w] = "ci_save"]
               /\ loc' = [loc EXCEPT ![w].ci_fmt = fmt,
                                     ![w].ci_img = fs[l.file].img,
                                     ![w].source_exif = src,
                                     ![w].exif_bytes = dumped]
               /\ ghost' = [ghost EXCEPT ![w].ci_exc =
                              IF src.ok /\ fmt = "JPEG" /\ ~dumped
                              THEN @ \cup {"dump"} ELSE @]
  /\ UNCHANGED << fs, heic, now, lockvars, call >>

\* What img_copy.save(output_path, ...) writes, lines 219-235: a JPEG at the
\* given quality with the dumped EXIF or none, or an optimized PNG.
Encoded(l, sz) ==
  [fmt |-> l.ci_fmt, img |-> l.ci_img,
   enc |-> IF l.ci_fmt = "JPEG" THEN l.actual_quality ELSE 1,
   size |-> sz,
   exif |-> IF l.ci_fmt # "JPEG" THEN NoExif
            ELSE IF l.exif_bytes THEN l.source_exif ELSE EmptyExif,
   mtime |-> now]

\* The save either completes, with an output of some size, or raises: before
\* the output file was opened (0), or after it was truncated (-1).
SaveOutcomes == {0, -1} \cup (1 .. MaxSize)

CISave(w) ==
  /\ pc[w] = "ci_save"
  /\ LET l == loc[w] IN
     \E sz \in SaveOutcomes :
       IF sz > 0
       THEN /\ fs' = Write(fs, l.ci_out, Encoded(l, sz))
            /\ pc' = [pc EXCEPT ![w] = "ci_measure"]
            /\ loc' = loc
            /\ ghost' = [ghost EXCEPT ![w].touched = @ \/ l.ci_out = l.file]
       ELSE /\ fs' = IF sz = -1 THEN Write(fs, l.ci_out, Corrupt) ELSE fs
            /\ LeaveCompress(w, ExceptionResult)
            /\ ghost' = [ghost EXCEPT ![w].touched = @ \/ (sz = -1 /\ l.ci_out = l.file),
                                      ![w].fault = TRUE,
                                      ![w].ci_exc = @ \cup {"encode"}]
  /\ UNCHANGED << heic, now, lockvars, call >>

\* Lines 237-241 and 268-299: the size of what is at output_path, the
\* efficiency test, and for an efficient result the metadata validation and
\* the success outcome.
CIMeasure(w) ==
  /\ pc[w] = "ci_measure"
  /\ LET l == loc[w]
         csize == get_file_size(fs, l.ci_out)
     IN IF ~is_compression_efficient(l.ci_size, csize)
        THEN /\ pc' = [pc EXCEPT ![w] = IF l.ci_out # l.file THEN "ci_remove" ELSE "ci_mark"]
             /\ loc' = [loc EXCEPT ![w].compressed_size = csize]
        ELSE LET lost == IF l.ci_fmt = "JPEG" /\ l.source_exif.ok
                         THEN LostTags(l.source_exif, read_exif_data(fs, l.ci_out))
                         ELSE {}
                 kept == IF l.ci_fmt = "PNG" THEN FALSE ELSE lost = {}
             IN /\ pc' = [pc EXCEPT ![w] = AfterCompress(w,
                            Result(TRUE, l.ci_size, csize, l.ci_out, "", kept))]
                /\ loc' = [loc EXCEPT
                     ![w].compressed_size = csize,
                     ![w].result = Result(TRUE, l.ci_size, csize, l.ci_out,
                        IF kept THEN "Compressed successfully"
                        ELSE "Compressed with metadata loss", kept)]
  /\ UNCHANGED << fs, heic, now, ghost, lockvars, call >>

\* Lines 242-246: os.remove(output_path) of a separate output, OSError passed.
CIRemove(w) ==
  /\ pc[w] = "ci_remove"
  /\ \E removed \in (IF Exists(fs, loc[w].ci_out) THEN BOOLEAN ELSE {FALSE}) :
       /\ fs' = IF removed THEN Remove(fs, loc[w].ci_out) ELSE fs
       /\ ghost' = [ghost EXCEPT ![w].fault = @ \/ ~removed,
                                 ![w].ci_exc = IF Exists(fs, loc[w].ci_out) /\ ~removed
                                               THEN @ \cup {"remove"} ELSE @]
  /\ pc' = [pc EXCEPT ![w] = "ci_mark"]
  /\ UNCHANGED << heic, now, loc, lockvars, call >>

\* Lines 248-266: the marker of quality 99 on file_path and the "not
\* efficient" outcome.
CIMark(w) ==
  /\ pc[w] = "ci_mark"
  /\ LET l == loc[w] IN
     /\ \E io_ok \in MarkerOutcomes(fs, l.file) :
          /\ fs' = add_compression_marker(fs, l.file, NotEfficientQuality,
                                          l.source_exif, now, io_ok)
          /\ ghost' = [ghost EXCEPT ![w].touched = @ \/ MarkerWritten(fs, l.file, io_ok),
                                    ![w].fault = @ \/ ~io_ok,
                                    ![w].stamp_failed = ~MarkerWritten(fs, l.file, io_ok)]
     /\ LeaveCompress(w,
          IF l.ci_fmt = "PNG"
          THEN Result(TRUE, l.ci_size, l.compressed_size, NoPath, MsgNotEfficientPng, FALSE)
          ELSE Result(TRUE, l.ci_size, l.compressed_size, NoPath, MsgNotEfficient,
                      l.source_exif.ok))
  /\ UNCHANGED << heic, now, lockvars, call >>

\* ------------------------------- compress_image_safe, after compress_image
\* Lines 331-339: shutil.move(backup_path, file_path), IOError/OSError passed.
\* (mutant) the backup is deleted instead of being moved back
move_Delete(fsys, src, dst) == Remove(fsys, src)

\* shutil.move(src, dst), completed: a rename
move(fsys, src, dst) == Write(Remove(fsys, src), dst, fsys[src])

Restore(w) ==
  /\ pc[w] = "restore"
  /\ LET l == loc[w]
         bak == BakOf(l.file)
     IN \E moved \in (IF Exists(fs, bak) THEN BOOLEAN ELSE {FALSE}) :
          /\ fs' = IF moved THEN move(fs, bak, l.file) ELSE fs
          /\ ghost' = [ghost EXCEPT ![w].restored = IF moved THEN "ok" ELSE "failed",
                                    ![w].touched = @ \/ moved,
                                    ![w].fault = @ \/ ~moved]
          /\ IF l.result.success /\ SaysNotEfficient(l.result.message)
             THEN /\ pc' = [pc EXCEPT ![w] = "remark"]
                  /\ loc' = loc
             ELSE ReturnResult(w, l.result)
  /\ UNCHANGED << heic, now, lockvars, call >>

\* Lines 336-339: the marker is stamped again, with the EXIF read from the
\* .bak path.
Remark(w) ==
  /\ pc[w] = "remark"
  /\ LET l == loc[w] IN
     /\ \E io_ok \in MarkerOutcomes(fs, l.file) :
          /\ fs' = add_compression_marker(fs, l.file, NotEfficientQuality,
                                          read_exif_data(fs, BakOf(l.file)), now, io_ok)
          /\ ghost' = [ghost EXCEPT ![w].touched = @ \/ MarkerWritten(fs, l.file, io_ok),
                                    ![w].fault = @ \/ ~io_ok]
     /\ ReturnResult(w, l.result)
  /\ UNCHANGED << heic, now, lockvars, call >>

\* Lines 341-344: os.remove(backup_path), OSError passed.
Commit(w) ==
  /\ pc[w] = "commit"
  /\ LET bak == BakOf(loc[w].file) IN
     \E removed \in (IF Exists(fs, bak) THEN BOOLEAN ELSE {FALSE}) :
       /\ fs' = IF removed THEN Remove(fs, bak) ELSE fs
       /\ ghost' = [ghost EXCEPT ![w].committed = TRUE, ![w].fault = @ \/ ~removed]
  /\ pc' = [pc EXCEPT ![w] = "dates_bak"]
  /\ UNCHANGED << heic, now, loc, lockvars, call >>

\* ExifHandler.preserve_file_dates(source_path, target_path): getatime and
\* getmtime of the source, os.utime on the target; an OSError (a path that
\* does not exist, a utime that fails) returns False and changes nothing.
\* (mutant) the times of the target are applied to the source
preserve_file_dates_Swapped(fsys, src, dst, io_ok) ==
  IF Exists(fsys, src) /\ Exists(fsys, dst) /\ io_ok
  THEN Write(fsys, src, [fsys[src] EXCEPT !.mtime = fsys[dst].mtime])
  ELSE fsys

\* (mutant) the times of the source are read and not applied
preserve_file_dates_Skip(fsys, src, dst, io_ok) == fsys

preserve_file_dates(fsys, src, dst, io_ok) ==
  IF Exists(fsys, src) /\ Exists(fsys, dst) /\ io_ok
  THEN Write(fsys, dst, [fsys[dst] EXCEPT !.mtime = fsys[src].mtime])
  ELSE fsys

\* Line 345, preserve_file_dates(backup_path, file_path), and line 394,
\* preserve_file_dates(file_path, output_path); then the result is returned.
PreserveDates(w) ==
  /\ pc[w] \in {"dates_bak", "dates_out"}
  /\ LET l == loc[w]
         src == IF pc[w] = "dates_bak" THEN BakOf(l.file) ELSE l.file
         dst == IF pc[w] = "dates_bak" THEN l.file ELSE l.result.saved_path
     IN \E io_ok \in (IF Exists(fs, src) /\ Exists(fs, dst) THEN BOOLEAN ELSE {TRUE}) :
          /\ fs' = preserve_file_dates(fs, src, dst, io_ok)
          /\ ghost' = [ghost EXCEPT ![w].fault = @ \/ ~io_ok]
  /\ ReturnResult(w, loc[w].result)
  /\ UNCHANGED << heic, now, lockvars, call >>

\* (mutant) the counter is stepped before it is used
Candidate_Skip(l) == Out(l.counter + 1, OutExt(l.file.ext))

\* Lines 377-379: f"{name}_compressed_{counter}{file_ext}" in output_dir
Candidate(l) == Out(l.counter, OutExt(l.file.ext))

\* (mutant) the check after the loop is missing
Exhausted_Never(fsys, l) == FALSE

\* Line 383: os.path.exists(output_path) after the loop
Exhausted(fsys, l) == Exists(fsys, l.output_path)

\* One iteration of the name search, lines 372-380.
NameLoop(w) ==
  /\ pc[w] = "name_loop"
  /\ LET l == loc[w] IN
     IF l.attempt < max_attempts /\ Exists(fs, l.output_path)
     THEN /\ loc' = [loc EXCEPT ![w].output_path = Candidate(l),
                                ![w].counter = l.counter + 1,
                                ![w].attempt = l.attempt + 1]
          /\ pc' = pc
     ELSE /\ pc' = [pc EXCEPT ![w] = "name_check"]
          /\ loc' = loc
  /\ UNCHANGED << fs, heic, now, ghost, lockvars, call >>

\* Lines 382-391: the check after the loop, then compress_image is called.
NameCheck(w) ==
  /\ pc[w] = "name_check"
  /\ LET l == loc[w] IN
     IF Exhausted(fs, l)
     THEN /\ ReturnResult(w, Result(FALSE, l.safe_size, 0, NoPath,
               "Failed to generate unique filename after 100 attempts", TRUE))
          /\ ghost' = ghost
     ELSE /\ pc' = [pc EXCEPT ![w] = "ci_check"]
          /\ loc' = [loc EXCEPT ![w].ci_out = l.output_path]
          /\ ghost' = [ghost EXCEPT ![w].chosen = l.output_path]
  /\ UNCHANGED << fs, heic, now, lockvars, call >>

\* The pipeline is run again on the file a successful replace-mode run left,
\* without force: a new scan gives file_info its size.
Rerun(w) ==
  /\ pc[w] = "returned"
  /\ loc[w].run = 1
  /\ loc[w].replace
  /\ loc[w].ret.has_result
  /\ loc[w].ret.result.success
  /\ loc[w].ret.result.saved_path # NoPath
  /\ Exists(fs, loc[w].ret.result.saved_path)
  /\ LET l == loc[w]
         nl == InitLoc(l.file, get_file_size(fs, l.file), l.quality, TRUE, FALSE)
     IN /\ loc' = [loc EXCEPT ![w] = [nl EXCEPT !.run = 2]]
        /\ ghost' = [ghost EXCEPT ![w].after1 = fs[l.ret.result.saved_path],
                                  ![w].ok1 = TRUE,
                                  ![w].q1 = l.actual_quality,
                                  ![w].invoked = FALSE]
  /\ pc' = [pc EXCEPT ![w] = "start"]
  /\ UNCHANGED << fs, heic, now, lockvars, call >>

\* ------------------------------------------------------------ FileLock
Procs == {1, 2}
\* FileLock.__init__: timeout = 30.0 (ticks of TickLen seconds)
Timeout == 30
\* seconds by which one tick advances the clock
TickLen == 16
NoLockFile == -1
\* exit: how the last _acquire_lock ended ("held", "timeout": the error of
\* lines 90-93, "error": the error of lines 73-75); waited: the time since
\* start_time when it raised
\* body_exc: the body of the with block raised; propagated: the exception left
\* the with statement; rm_failed: os.remove of the lock file raised OSError
InitLk ==
  [at |-> "out", start_time |-> 0, held |-> FALSE, exit |-> "none", waited |-> 0,
   body_exc |-> FALSE, propagated |-> FALSE, rm_failed |-> FALSE]

\* ------------------------------------------------------ initial states
Photo(fmt, sz, ex) ==
  [fmt |-> fmt, img |-> "photo", enc |-> 0, size |-> sz, exif |-> ex, mtime |-> OldTime]
\* a file left by an earlier run
OldFile ==
  [fmt |-> "JPEG", img |-> "old", enc |-> 0, size |-> 1, exif |-> EmptyExif, mtime |-> OldTime]

ExifChoices ==
  { NoExif, EmptyExif,
    [ok |-> TRUE, tags |-> CameraTags, comment |-> NoComment],
    [ok |-> TRUE, tags |-> CameraTags, comment |-> MarkerComment(60, 0)],
    [ok |-> TRUE, tags |-> CameraTags,
     comment |-> << EXIF_COMPRESSION_MARKER, ":", "x", ":", "0" >>] }

InitSizes == {1, 3, MaxSize}

\* a file that carries a user comment was last modified at OldTime or at
\* StartTime (touched after it was stamped)
ContentsFor(f) ==
  IF f.ext = ".jpg"
  THEN {[Photo("JPEG", sz, ex) EXCEPT !.mtime = t] :
          sz \in InitSizes, ex \in ExifChoices, t \in {OldTime, StartTime}}
       \ {c \in {[Photo("JPEG", sz, ex) EXCEPT !.mtime = StartTime] :
                    sz \in InitSizes, ex \in ExifChoices} : c.exif.comment = NoComment}
  ELSE IF f.ext = ".png" THEN {Photo("PNG", sz, NoExif) : sz \in InitSizes}
  ELSE {Photo("HEIF", sz, NoExif) : sz \in InitSizes}

\* the input files, their .bak siblings left behind (has_bak) and the first
\* npre names of the output directory taken
InitFs(files, has_bak, npre, e) ==
  [p \in (DOMAIN files) \cup {BakOf(f) : f \in has_bak} \cup {Out(k, e) : k \in 0 .. (npre - 1)}
     |-> IF p \in DOMAIN files THEN files[p] ELSE OldFile]

\* no function is called on its own
NoCall == [done |-> FALSE]

InitLockIdle ==
  /\ lockfile = NoLockFile
  /\ lk = [p \in Procs |-> InitLk]
  /\ call = NoCall

\* One worker, one file: process_single_file in replace mode or copy mode.
Init ==
  /\ \E f \in {File("a", ".jpg"), File("a", ".png"), File("a", ".heic")} :
     \E c \in ContentsFor(f) :
     \E r \in BOOLEAN, fo \in BOOLEAN, q \in {0, 60} :
     \E extra \in 0 .. MaxPre :
       /\ fs = IF r THEN InitFs((f :> c), IF extra > 0 THEN {f} ELSE {}, 0, ".jpg")
                    ELSE InitFs((f :> c), {}, extra, OutExt(f.ext))
       /\ loc = [w \in Workers |-> IF w = 1 THEN InitLoc(f, c.size, q, r, fo) ELSE IdleLoc]
       /\ heic \in (IF HEIC(f.ext) THEN BOOLEAN ELSE {TRUE})
  /\ pc = [w \in Workers |-> IF w = 1 THEN "start" ELSE "off"]
  /\ ghost = [w \in Workers |-> InitGhost]
  /\ now = StartTime
  /\ InitLockIdle

Step(w) ==
  \/ SkipCheck(w)
  \/ Probe(w)
  \/ SafeStart(w)
  \/ Backup(w)
  \/ CICheck(w)
  \/ CIOpen(w)
  \/ CISave(w)
  \/ CIMeasure(w)
  \/ CIRemove(w)
  \/ CIMark(w)
  \/ Restore(w)
  \/ Remark(w)
  \/ Commit(w)
  \/ PreserveDates(w)
  \/ NameLoop(w)
  \/ NameCheck(w)

Next == \E w \in Workers : Step(w) \/ Rerun(w)

Spec == Init /\ [][Next]_vars

\* ---------------------------------------------------------------------
\* Two workers of the pool (cli.py, _run_compression: one
\* executor.submit(process_single_file, ...) per file of the list).  The two
\* files have the same base name in different directories, or are the same
\* path submitted twice.
InitPool ==
  /\ \E t \in [Workers -> {File("a", ".jpg"), File("b", ".jpg")}] :
     \E r \in BOOLEAN :
     \E npre \in 0 .. MaxPre :
       /\ r => npre = 0
       /\ fs = InitFs([f \in {t[w] : w \in Workers} |-> Photo("JPEG", MaxSize, EmptyExif)],
                      {}, npre, ".jpg")
       /\ loc = [w \in Workers |-> InitLoc(t[w], MaxSize, 60, r, TRUE)]
  /\ heic = TRUE
  /\ pc = [w \in Workers |-> "start"]
  /\ ghost = [w \in Workers |-> InitGhost]
  /\ now = StartTime
  /\ InitLockIdle

StepPool(w) ==
  \/ SkipCheck(w)
  \/ SafeStart(w)
  \/ Backup(w)
  \/ CICheck(w)
  \/ CIOpen(w)
  \/ CISave(w)
  \/ CIMeasure(w)
  \/ CIRemove(w)
  \/ CIMark(w)
  \/ Restore(w)
  \/ Remark(w)
  \/ Commit(w)
  \/ PreserveDates(w)
  \/ NameLoop(w)
  \/ NameCheck(w)

NextPool == \E w \in Workers : StepPool(w)

SpecPool == InitPool /\ [][NextPool]_vars

\* ---------------------------------------------------------------------
\* The pool of _run_compression, or that of _run_dry_run.
\* CompressionResult.is_efficient
is_efficient(original_size, compressed_size) ==
  IF original_size <= 0 THEN FALSE
  ELSE compressed_size * 100 <= original_size * MIN_COMPRESSION_RATIO_PCT

\* cli.py, compress: ensure_output_directory is called when the run is not a
\* dry run, no output directory was given and the mode is not replace
EnsuresOutputDirectory(dry_run, output_dir_given, replace) ==
  ~dry_run /\ ~output_dir_given /\ ~replace

\* (mutant) the dry run stamps the file it finds not worth compressing
DryRun_Marking(w) ==
  /\ pc[w] = "dry"
  /\ fs' = add_compression_marker(fs, loc[w].file, NotEfficientQuality, NoExif, now, TRUE)
  /\ loc' = [loc EXCEPT ![w].ret =
               Ret(FALSE, NoResult, TRUE, "Compression not efficient", "")]
  /\ pc' = [pc EXCEPT ![w] = "returned"]
  /\ UNCHANGED << heic, now, ghost, lockvars, call >>

\* process_single_file_dry_run: the skip check, then test_compression; the
\* tuple (file_info, should_process, skip_reason, test_result) is kept as
\* (result, skipped, skip_reason) of ret.
DryRun(w) ==
  /\ pc[w] = "dry"
  /\ LET l == loc[w]
         marked == is_image_compressed(fs, l.file) /\ ~should_recompress(fs, l.file)
         why == IF l.force THEN ""
                ELSE IF marked THEN "Already compressed"
                ELSE IF is_already_small(l.size) THEN "Already small"
                ELSE ""
         o == get_file_size(fs, l.file)
     IN \E c \in (IF why # "" THEN {0} ELSE TrialOutcomes(fs, l.file, heic)) :
          loc' = [loc EXCEPT ![w].ret =
                    IF why # "" THEN Ret(FALSE, NoResult, TRUE, why, "")
                    ELSE IF c = -1 THEN Ret(FALSE, NoResult, TRUE, "Test failed", "")
                    ELSE IF c = -2
                    THEN Ret(TRUE, Result(FALSE, o, o, NoPath, "File too small", TRUE),
                             TRUE, "Compression not efficient", "")
                    ELSE IF ~is_efficient(o, c)
                    THEN Ret(TRUE, Result(TRUE, o, c, NoPath, "", TRUE),
                             TRUE, "Compression not efficient", "")
                    ELSE Ret(TRUE, Result(TRUE, o, c, NoPath, "", TRUE), FALSE, "", "")]
  /\ pc' = [pc EXCEPT ![w] = "returned"]
  /\ UNCHANGED << fs, heic, now, ghost, lockvars, call >>

InitDry ==
  /\ \E ca, cb \in {Photo("JPEG", sz, ex) :
                       sz \in InitSizes, ex \in {NoExif, EmptyExif}}
                     \cup {Corrupt} :
     \E fo \in BOOLEAN :
       /\ fs = (File("a", ".jpg") :> ca) @@ (File("b", ".jpg") :> cb)
       /\ loc = [w \in Workers |->
                  IF w = 1 THEN InitLoc(File("a", ".jpg"), ca.size, 60, FALSE, fo)
                  ELSE InitLoc(File("b", ".jpg"), cb.size, 60, FALSE, fo)]
  /\ heic = TRUE
  /\ pc = [w \in Workers |-> "dry"]
  /\ ghost = [w \in Workers |-> InitGhost]
  /\ now = StartTime
  /\ InitLockIdle

\* two files of one directory, each given to one worker
InitTwo ==
  /\ \E r \in BOOLEAN :
       /\ fs = (File("a", ".jpg") :> Photo("JPEG", MaxSize, EmptyExif))
                 @@ (File("b", ".jpg") :> Photo("JPEG", MaxSize, EmptyExif))
       /\ loc = [w \in Workers |->
                  InitLoc(File(IF w = 1 THEN "a" ELSE "b", ".jpg"), MaxSize, 60, r, TRUE)]
  /\ heic = TRUE
  /\ pc = [w \in Workers |-> "start"]
  /\ ghost = [w \in Workers |-> InitGhost]
  /\ now = StartTime
  /\ InitLockIdle

InitIsolation == InitTwo \/ InitDry

StepIsolation(w) ==
  \/ StepPool(w)
  \/ DryRun(w)

NextIsolation == \E w \in Workers : StepIsolation(w)

\* every worker process of the pool keeps running until its call returns
SpecIsolation ==
  /\ InitIsolation
  /\ [][NextIsolation]_vars
  /\ \A w \in Workers : WF_vars(StepIsolation(w))

\* ---------------------------------------------------------------------
\* One worker in copy mode, the output directory holding up to
\* max_attempts + 1 of the names of the sequence (all of them but, possibly,
\* one: gap).
InitNaming ==
  /\ \E npre \in 0 .. (max_attempts + 1) :
     \E gap \in {-1, 0, 1, max_attempts - 1, max_attempts} :
       LET f == File("a", ".jpg") IN
       /\ fs = [p \in {f} \cup {Out(k, ".jpg") : k \in (0 .. (npre - 1)) \ {gap}}
                  |-> IF p = f THEN Photo("JPEG", MaxSize, EmptyExif) ELSE OldFile]
       /\ loc = [w \in Workers |-> IF w = 1 THEN InitLoc(f, MaxSize, 60, FALSE, TRUE)
                                    ELSE IdleLoc]
  /\ heic = TRUE
  /\ pc = [w \in Workers |-> IF w = 1 THEN "start" ELSE "off"]
  /\ ghost = [w \in Workers |-> InitGhost]
  /\ now = StartTime
  /\ InitLockIdle

StepNaming(w) ==
  \/ SkipCheck(w)
  \/ SafeStart(w)
  \/ NameLoop(w)
  \/ NameCheck(w)
  \/ CICheck(w)
  \/ CIOpen(w)
  \/ CISave(w)
  \/ CIMeasure(w)
  \/ CIRemove(w)
  \/ CIMark(w)
  \/ PreserveDates(w)

NextNaming == \E w \in Workers : StepNaming(w)

SpecNaming == InitNaming /\ [][NextNaming]_vars

\* ---------------------------------------------------------------------
\* FileLock (file_lock.py): processes that take and release the lock of one
\* path.  The lock file is absent (NoLockFile) or carries its mtime.  No
\* caller of FileLock exists in the sources: the pool's workers do not take it.

\* "with FileLock(path):" is entered; line 58, start_time = time.time()
AcquireBegin(p) ==
  /\ lk[p].at = "out"
  /\ lk' = [lk EXCEPT ![p].at = "try", ![p].start_time = now,
                      ![p].exit = "none", ![p].waited = 0, ![p].body_exc = FALSE,
                      ![p].propagated = FALSE, ![p].rm_failed = FALSE]
  /\ UNCHANGED << lockfile, now, workvars, call >>

\* Lines 61-76: os.open(lock_path, O_CREAT | O_EXCL | O_RDWR) creates the
\* file atomically, fails with EEXIST when it exists, or fails with another
\* error, which is raised as FileLockTimeoutError.
TryCreate(p) ==
  /\ lk[p].at = "try"
  /\ \E errno \in {"none", "EEXIST", "other"} :
       /\ errno = "none" => lockfile = NoLockFile
       /\ errno = "EEXIST" => lockfile # NoLockFile
       /\ IF errno = "none"
          THEN /\ lockfile' = now
               /\ lk' = [lk EXCEPT ![p].at = "in", ![p].held = TRUE, ![p].exit = "held"]
          ELSE /\ lockfile' = lockfile
               /\ lk' = IF errno = "EEXIST" THEN [lk EXCEPT ![p].at = "stale"]
                        ELSE [lk EXCEPT ![p].at = "out", ![p].exit = "error",
                                        ![p].waited = now - lk[p].start_time]
  /\ UNCHANGED << now, workvars, call >>

\* Lines 79-81 and 85-86: the age of the lock file; getmtime raises OSError
\* when the file is gone, which is passed.
CheckStale(p) ==
  /\ lk[p].at = "stale"
  /\ lk' = [lk EXCEPT ![p].at =
       IF lockfile # NoLockFile /\ now - lockfile > Timeout THEN "rm" ELSE "timeout"]
  /\ UNCHANGED << lockfile, now, workvars, call >>

\* Lines 83-86: os.remove(lock_path) and continue; OSError is passed.
RemoveStale(p) ==
  /\ lk[p].at = "rm"
  /\ IF lockfile # NoLockFile
     THEN /\ lockfile' = NoLockFile
          /\ lk' = [lk EXCEPT ![p].at = "try"]
     ELSE /\ lockfile' = lockfile
          /\ lk' = [lk EXCEPT ![p].at = "timeout"]
  /\ UNCHANGED << now, workvars, call >>

\* (mutant) the elapsed time is never tested
TimedOut_Never(elapsed) == FALSE

\* Line 89: time.time() - start_time >= self.timeout
TimedOut(elapsed) == elapsed >= Timeout

\* Lines 89-96: FileLockTimeoutError once the timeout has elapsed, else
\* time.sleep(poll_interval) and the loop again.
CheckTimeout(p) ==
  /\ lk[p].at = "timeout"
  /\ lk' = IF TimedOut(now - lk[p].start_time)
           THEN [lk EXCEPT ![p].at = "out", ![p].exit = "timeout",
                           ![p].waited = now - lk[p].start_time]
           ELSE [lk EXCEPT ![p].at = "try"]
  /\ UNCHANGED << lockfile, now, workvars, call >>

\* (mutant) __exit__ returns True
exit_returns_True == TRUE

\* Line 139: __exit__ returns False, the exception of the body is not suppressed
exit_returns == FALSE

\* Line 113: os.remove(lock_path) removes the file or raises OSError
RemoveOutcomes == {"removed", "OSError"}

\* The with block is left, normally or by an exception of its body; __exit__
\* calls _release_lock; lines 104-112: the descriptor is closed and
\* os.path.exists(lock_path) is asked.
ReleaseBegin(p) ==
  /\ lk[p].at = "in"
  /\ \E exc \in BOOLEAN :
       lk' = [lk EXCEPT ![p].at = IF lockfile # NoLockFile THEN "unlink" ELSE "out",
                        ![p].held = FALSE,
                        ![p].body_exc = exc,
                        ![p].propagated =
                           IF lockfile # NoLockFile THEN FALSE ELSE exc /\ ~exit_returns]
  /\ UNCHANGED << lockfile, now, workvars, call >>

\* Lines 113-115: os.remove(lock_path), OSError passed (the file may be gone
\* by now: FileNotFoundError is an OSError); line 139.
ReleaseRemove(p) ==
  /\ lk[p].at = "unlink"
  /\ \E out \in RemoveOutcomes :
       LET failed == lockfile # NoLockFile /\ out = "OSError" IN
       /\ lockfile' = IF failed THEN lockfile ELSE NoLockFile
       /\ lk' = [lk EXCEPT ![p].at = "out",
                           ![p].rm_failed = failed,
                           ![p].propagated = lk[p].body_exc /\ ~exit_returns]
  /\ UNCHANGED << now, workvars, call >>

\* time passes
Tick ==
  /\ now < MaxTicks * TickLen
  /\ now' = now + TickLen
  /\ UNCHANGED << lockvars, workvars, call >>

\* A lock file may have been left by a process that died holding it.
InitLock ==
  /\ lockfile \in {NoLockFile, 0}
  /\ lk = [p \in Procs |-> InitLk]
  /\ call = NoCall
  /\ now = 0
  /\ fs = << >>
  /\ heic = TRUE
  /\ pc = [w \in Workers |-> "off"]
  /\ loc = [w \in Workers |-> IdleLoc]
  /\ ghost = [w \in Workers |-> InitGhost]

StepLock(p) ==
  \/ AcquireBegin(p)
  \/ TryCreate(p)
  \/ CheckStale(p)
  \/ RemoveStale(p)
  \/ CheckTimeout(p)
  \/ ReleaseBegin(p)
  \/ ReleaseRemove(p)

NextLock == Tick \/ \E p \in Procs : StepLock(p)

SpecLock == InitLock /\ [][NextLock]_vars

\* the steps of _acquire_lock of process p
AcquireStep(p) ==
  \/ TryCreate(p)
  \/ CheckStale(p)
  \/ RemoveStale(p)
  \/ CheckTimeout(p)

\* Time passes and a process inside _acquire_lock keeps running; nothing is
\* assumed of the holders of the lock, which may keep it for ever.
SpecLockFair ==
  /\ SpecLock
  /\ WF_vars(Tick)
  /\ \A p \in Procs : WF_vars(AcquireStep(p))

\* ---------------------------------------------------------------------
\* The marker functions of ExifHandler called on their own, on a JPEG file
\* whose user comment is any text of the shapes below.
MarkerFile == File("a", ".jpg")

Prefixes ==
  { << EXIF_COMPRESSION_MARKER >>, << EXIF_COMPRESSION_MARKER, "x" >>, << "x" >>, << >> }
FieldTexts ==
  { << "6", "0" >>, << "0" >>, << "x" >>, << >>, << " ", "9" >> }

RECURSIVE JoinFields(_)
JoinFields(fields) ==
  IF fields = << >> THEN << >>
  ELSE << ":" >> \o Head(fields) \o JoinFields(Tail(fields))

Comments ==
  { pre \o JoinFields(fields) :
      pre \in Prefixes,
      fields \in UNION {[1 .. n -> FieldTexts] : n \in 0 .. MaxFields} }

MarkerQualities == {1, 99, 100}
MarkerTimes == {0, StartTime}

InitMarker ==
  /\ \E ex \in {NoExif} \cup {[ok |-> TRUE, tags |-> CameraTags, comment |-> c] :
                                c \in Comments} :
     \E t \in {OldTime, StartTime} :
       fs = (MarkerFile :> [Photo("JPEG", MaxSize, ex) EXCEPT !.mtime = t])
  /\ call = [done |-> FALSE, op |-> "", stamped |-> FALSE, q |-> 0, ts |-> 0,
             info |-> NotMarked, recompress |-> FALSE]
  /\ heic = TRUE
  /\ now = StartTime
  /\ pc = [w \in Workers |-> "off"]
  /\ loc = [w \in Workers |-> IdleLoc]
  /\ ghost = [w \in Workers |-> InitGhost]
  /\ lockfile = NoLockFile
  /\ lk = [p \in Procs |-> InitLk]

\* ExifHandler.add_compression_marker(file, q, source_exif) at time t; call
\* keeps the quality and the timestamp of the marker when one was written.
CallAddMarker ==
  /\ ~call.stamped
  /\ \E q \in MarkerQualities, t \in MarkerTimes, io_ok \in BOOLEAN :
     \E src \in {NoExif, read_exif_data(fs, MarkerFile)} :
       LET written == MarkerWritten(fs, MarkerFile, io_ok) IN
       /\ fs' = add_compression_marker(fs, MarkerFile, q, src, t, io_ok)
       /\ call' = [call EXCEPT !.done = FALSE,
                               !.stamped = written,
                               !.q = IF written THEN q ELSE 0,
                               !.ts = IF written THEN t * 1000 ELSE 0]
  /\ UNCHANGED << heic, now, pc, loc, ghost, lockvars >>

\* ExifHandler.get_compression_info(file)
CallGetInfo ==
  /\ call' = [call EXCEPT !.done = TRUE,
                          !.op = "get_compression_info",
                          !.info = get_compression_info(fs, MarkerFile)]
  /\ UNCHANGED << workvars, now, lockvars >>

\* ExifHandler.should_recompress(file)
CallShouldRecompress ==
  /\ call' = [call EXCEPT !.done = TRUE,
                          !.op = "should_recompress",
                          !.recompress = should_recompress(fs, MarkerFile)]
  /\ UNCHANGED << workvars, now, lockvars >>

NextMarker == CallAddMarker \/ CallGetInfo \/ CallShouldRecompress

SpecMarker == InitMarker /\ [][NextMarker]_vars

\* ---------------------------------------------------------------------
\* add_compression_marker called on its own with a source block: the block
\* of the file itself, of another file that has some of its tags or none, or
\* no block at all.
SourceBlocks ==
  {[ok |-> TRUE, tags |-> T, comment |-> NoComment] : T \in {{"Make"}, {}}}

TargetBlocks ==
  { NoExif, EmptyExif,
    [ok |-> TRUE, tags |-> CameraTags, comment |-> NoComment],
    [ok |-> TRUE, tags |-> {"DateTimeOriginal"}, comment |-> MarkerComment(60, 0)] }

InitStamp ==
  /\ \E fmt \in {"JPEG", "PNG"}, ex \in TargetBlocks, t \in {OldTime, StartTime} :
       fs = (MarkerFile :> [Photo(fmt, MaxSize, ex) EXCEPT !.mtime = t])
  /\ call = [calls |-> 0, returned |-> FALSE, q |-> 0, ts |-> 0,
             with_source |-> FALSE, source_tags |-> {}, own_tags |-> {},
             before |-> Corrupt]
  /\ heic = TRUE
  /\ now = StartTime
  /\ pc = [w \in Workers |-> "off"]
  /\ loc = [w \in Workers |-> IdleLoc]
  /\ ghost = [w \in Workers |-> InitGhost]
  /\ lockfile = NoLockFile
  /\ lk = [p \in Procs |-> InitLk]

\* ExifHandler.add_compression_marker(file, q, source_exif) at time t; call
\* keeps the arguments, the file as it was, and the value returned.
CallStamp ==
  /\ call.calls < MaxCalls
  /\ \E q \in MarkerQualities, t \in MarkerTimes, io_ok \in BOOLEAN :
     \E src \in {NoExif, read_exif_data(fs, MarkerFile)} \cup SourceBlocks :
       /\ fs' = add_compression_marker(fs, MarkerFile, q, src, t, io_ok)
       /\ call' = [calls |-> call.calls + 1,
                   returned |-> MarkerWritten(fs, MarkerFile, io_ok),
                   q |-> q, ts |-> t * 1000,
                   with_source |-> src.ok,
                   source_tags |-> src.tags,
                   own_tags |-> read_exif_data(fs, MarkerFile).tags,
                   before |-> fs[MarkerFile]]
  /\ UNCHANGED << heic, now, pc, loc, ghost, lockvars >>

SpecStamp == InitStamp /\ [][CallStamp]_vars

\* ---------------------------------------------------------------------
\* find_optimal_quality on its own: process_single_file with quality 0 and
\* force, up to the call of compress_image_safe; every trial is recorded.
ProbeSizes == {1, 3, MaxSize, 20}

InitProbe ==
  /\ \E sz \in ProbeSizes :
       LET f == File("a", ".jpg") IN
       /\ fs = (f :> Photo("JPEG", sz, EmptyExif))
       /\ loc = [w \in Workers |-> IF w = 1 THEN InitLoc(f, sz, 0, FALSE, TRUE) ELSE IdleLoc]
  /\ heic = TRUE
  /\ pc = [w \in Workers |-> IF w = 1 THEN "start" ELSE "off"]
  /\ ghost = [w \in Workers |-> [InitGhost EXCEPT !.keep_probes = (w = 1)]]
  /\ now = StartTime
  /\ InitLockIdle

StepProbe(w) ==
  \/ SkipCheck(w)
  \/ Probe(w)

NextProbe == \E w \in Workers : StepProbe(w)

SpecProbe == InitProbe /\ [][NextProbe]_vars

\* ---------------------------------------------------------------------
\* is_compression_efficient on its own
InitEfficient ==
  /\ \E o \in 0 .. MaxOrig, c \in 0 .. MaxOrig :
       call = [done |-> FALSE, o |-> o, c |-> c, result |-> FALSE]
  /\ fs = << >>
  /\ heic = TRUE
  /\ pc = [w \in Workers |-> "off"]
  /\ loc = [w \in Workers |-> IdleLoc]
  /\ ghost = [w \in Workers |-> InitGhost]
  /\ now = StartTime
  /\ lockfile = NoLockFile
  /\ lk = [p \in Procs |-> InitLk]

CallEfficient ==
  /\ ~call.done
  /\ call' = [call EXCEPT !.done = TRUE,
                          !.result = is_compression_efficient(call.o, call.c)]
  /\ UNCHANGED << workvars, now, lockvars >>

NextEfficient == CallEfficient

SpecEfficient == InitEfficient /\ [][NextEfficient]_vars

\* ---------------------------------------------------------------------
\* The orchestrator: _run_compression collects the workers' tuples as the
\* futures complete and folds them into the statistics; compress prints the
\* summary afterwards.
Stats0 ==
  [total |-> 0, processed |-> 0, skipped |-> 0, success |-> 0, failed |-> 0,
   original_size_total |-> 0, compressed_size_total |-> 0,
   skipped_reasons |-> << >>,
   \* None is 0 for the times and "" for the path
   start_time |-> 0, end_time |-> 0, processed_path |-> ""]

\* (mutant) the byte totals keep the last result's sizes
add_result_Last(st, result, skipped, reason) ==
  LET s1 == [st EXCEPT !.processed = @ + 1] IN
  IF skipped
  THEN [s1 EXCEPT !.skipped = @ + 1,
                  !.skipped_reasons =
                     IF reason = "" THEN @
                     ELSE IF reason \in DOMAIN @ THEN [@ EXCEPT ![reason] = @ + 1]
                     ELSE @ @@ (reason :> 1)]
  ELSE IF result.success
  THEN [s1 EXCEPT !.success = @ + 1,
                  !.original_size_total = result.original_size,
                  !.compressed_size_total = result.compressed_size]
  ELSE [s1 EXCEPT !.failed = @ + 1]

\* CompressionStats.add_result(result, skipped, reason), stats.py:67-89;
\* skipped_reasons is the dictionary reason -> count
add_result(st, result, skipped, reason) ==
  LET s1 == [st EXCEPT !.processed = @ + 1] IN
  IF skipped
  THEN [s1 EXCEPT !.skipped = @ + 1,
                  !.skipped_reasons =
                     IF reason = "" THEN @
                     ELSE IF reason \in DOMAIN @ THEN [@ EXCEPT ![reason] = @ + 1]
                     ELSE @ @@ (reason :> 1)]
  ELSE IF result.success
  THEN [s1 EXCEPT !.success = @ + 1,
                  !.original_size_total = @ + result.original_size,
                  !.compressed_size_total = @ + result.compressed_size]
  ELSE [s1 EXCEPT !.failed = @ + 1]

\* FileInfo.size of the i-th file of the list
SizeOf(i) == i + 1

\* What future.result() gives for the i-th file: the tuple of
\* process_single_file (a saved result, a "not efficient" result, a failure
\* result, a skip, an error message), or an exception of the future (exc).
Futures(i) ==
  { [exc |-> FALSE,
     ret |-> Ret(TRUE, Result(TRUE, SizeOf(i), 1, Out(i, ".jpg"),
                              "Compressed successfully", TRUE), FALSE, "", "")],
    [exc |-> FALSE,
     ret |-> Ret(TRUE, Result(TRUE, SizeOf(i), SizeOf(i), NoPath, MsgNotEfficient, TRUE),
                 FALSE, "", "")],
    [exc |-> FALSE,
     ret |-> Ret(TRUE, Result(FALSE, SizeOf(i), 0, NoPath, "Failed to create backup", TRUE),
                 FALSE, "", "")],
    [exc |-> FALSE, ret |-> Ret(FALSE, NoResult, TRUE, "Already compressed", "")],
    [exc |-> FALSE, ret |-> Ret(FALSE, NoResult, TRUE, "Already small", "")],
    [exc |-> FALSE, ret |-> Ret(FALSE, NoResult, FALSE, "", "Compression error")],
    [exc |-> TRUE, ret |-> NoRet] }

\* (mutant) a result that is not a saved success is not recorded
Handle_SavedOnly(st, fut, i) ==
  IF fut.exc
  THEN add_result(st, Result(FALSE, SizeOf(i), 0, NoPath, "Process error", TRUE), FALSE, "")
  ELSE IF fut.ret.error # ""
  THEN add_result(st, Result(FALSE, SizeOf(i), 0, NoPath, fut.ret.error, TRUE), FALSE, "")
  ELSE IF fut.ret.skipped
  THEN add_result(st, Result(FALSE, SizeOf(i), 0, NoPath, "", TRUE), TRUE, fut.ret.skip_reason)
  ELSE IF fut.ret.has_result /\ fut.ret.result.success /\ fut.ret.result.saved_path # NoPath
  THEN add_result(st, fut.ret.result, FALSE, "")
  ELSE st

\* The body of the as_completed loop, cli.py:421-473: the statistics after
\* the future of file i was handled.
Handle(st, fut, i) ==
  IF fut.exc
  THEN add_result(st, Result(FALSE, SizeOf(i), 0, NoPath, "Process error", TRUE), FALSE, "")
  ELSE IF fut.ret.error # ""
  THEN add_result(st, Result(FALSE, SizeOf(i), 0, NoPath, fut.ret.error, TRUE), FALSE, "")
  ELSE IF fut.ret.skipped
  THEN add_result(st, Result(FALSE, SizeOf(i), 0, NoPath, "", TRUE), TRUE, fut.ret.skip_reason)
  ELSE IF fut.ret.has_result /\ fut.ret.result.success /\ fut.ret.result.saved_path # NoPath
  THEN add_result(st, fut.ret.result, FALSE, "")
  ELSE IF fut.ret.has_result
  THEN add_result(st, fut.ret.result, FALSE, "")
  ELSE st

\* compress: stats.total = len(files), then _run_compression submits one
\* future per file.
InitRun ==
  /\ \E n \in 1 .. MaxFiles :
     \E t \in [1 .. n -> UNION {Futures(i) : i \in 1 .. n}] :
       /\ \A i \in 1 .. n : t[i] \in Futures(i)
       /\ call = [done |-> FALSE, n |-> n, outcome |-> t,
                  fut |-> [i \in 1 .. n |-> "running"],
                  adds |-> [i \in 1 .. n |-> 0],
                  order |-> << >>,
                  stats |-> [Stats0 EXCEPT !.total = n],
                  phase |-> "pool"]
  /\ fs = << >>
  /\ heic = TRUE
  /\ pc = [w \in Workers |-> "off"]
  /\ loc = [w \in Workers |-> IdleLoc]
  /\ ghost = [w \in Workers |-> InitGhost]
  /\ now = StartTime
  /\ lockfile = NoLockFile
  /\ lk = [p \in Procs |-> InitLk]

\* a worker's call ends: its future is done
FutureDone(i) ==
  /\ call.phase = "pool"
  /\ call.fut[i] = "running"
  /\ call' = [call EXCEPT !.fut[i] = "done"]
  /\ UNCHANGED << workvars, now, lockvars >>

\* as_completed yields a future that is done, and the loop body handles it
Collect(i) ==
  /\ call.phase = "pool"
  /\ call.fut[i] = "done"
  /\ LET st == Handle(call.stats, call.outcome[i], i) IN
     call' = [call EXCEPT !.fut[i] = "collected",
                          !.adds[i] = @ + (st.processed - call.stats.processed),
                          !.order = Append(@, i),
                          !.stats = st]
  /\ UNCHANGED << workvars, now, lockvars >>

\* as_completed is exhausted, the executor is shut down, and compress calls
\* stats.print_summary(), cli.py:267
PrintSummary ==
  /\ call.phase = "pool"
  /\ \A i \in 1 .. call.n : call.fut[i] = "collected"
  /\ call' = [call EXCEPT !.phase = "summary", !.done = TRUE]
  /\ UNCHANGED << workvars, now, lockvars >>

NextRun ==
  \/ \E i \in 1 .. call.n : FutureDone(i)
  \/ \E i \in 1 .. call.n : Collect(i)
  \/ PrintSummary

SpecRun == InitRun /\ [][NextRun]_vars

\* ---------------------------------------------------------------------
\* ProcessSafeStats.add_result called by the orchestrator (process 0) and by
\* worker processes.  The pool's workers are processes (spawn): an object
\* given to one is pickled, so each process holds its own ProcessSafeStats
\* with its own CompressionStats (_stats, a plain object), while _lock, a
\* proxy of multiprocessing.Manager().Lock(), refers to the one lock of the
\* manager.
StatsProcs == {0, 1, 2}
NoHolder == -1
SavedResult == Result(TRUE, 2, 1, Out(0, ".jpg"), "Compressed successfully", TRUE)

InitStats ==
  /\ call = [done |-> FALSE,
             copy |-> [p \in StatsProcs |-> Stats0],
             holder |-> NoHolder,
             at |-> [p \in StatsProcs |-> "idle"],
             seen |-> [p \in StatsProcs |-> Stats0],
             calls |-> [p \in StatsProcs |-> 0]]
  /\ fs = << >>
  /\ heic = TRUE
  /\ pc = [w \in Workers |-> "off"]
  /\ loc = [w \in Workers |-> IdleLoc]
  /\ ghost = [w \in Workers |-> InitGhost]
  /\ now = StartTime
  /\ lockfile = NoLockFile
  /\ lk = [p \in Procs |-> InitLk]

\* with self._lock: the lock is acquired when no process holds it
StatsAcquire(p) ==
  /\ call.at[p] = "idle"
  /\ call.calls[p] < MaxCalls
  /\ call.holder = NoHolder
  /\ call' = [call EXCEPT !.holder = p, !.at[p] = "locked"]
  /\ UNCHANGED << workvars, now, lockvars >>

\* self._stats.add_result(...): the counters of the process's own _stats
\* are read ...
StatsRead(p) ==
  /\ call.at[p] = "locked"
  /\ call' = [call EXCEPT !.seen[p] = call.copy[p], !.at[p] = "read"]
  /\ UNCHANGED << workvars, now, lockvars >>

\* ... and written back
StatsWrite(p) ==
  /\ call.at[p] = "read"
  /\ call' = [call EXCEPT !.copy[p] = add_result(call.seen[p], SavedResult, FALSE, ""),
                          !.at[p] = "written"]
  /\ UNCHANGED << workvars, now, lockvars >>

\* the with block is left
StatsRelease(p) ==
  /\ call.at[p] = "written"
  /\ call' = [call EXCEPT !.holder = NoHolder, !.at[p] = "idle",
                          !.calls[p] = @ + 1]
  /\ UNCHANGED << workvars, now, lockvars >>

NextStats ==
  \E p \in StatsProcs :
    \/ StatsAcquire(p)
    \/ StatsRead(p)
    \/ StatsWrite(p)
    \/ StatsRelease(p)

SpecStats == InitStats /\ [][NextStats]_vars

\* ---------------------------------------------------------------------
\* CompressionStats.add_result called on its own, any number of times up to
\* MaxFiles, with any result, flag and reason; total, the path and the start
\* time were set by compress beforehand.
AddResults ==
  { Result(TRUE, 2, 1, Out(0, ".jpg"), "Compressed successfully", TRUE),
    Result(TRUE, 1, 1, NoPath, MsgNotEfficient, TRUE),
    Result(FALSE, 2, 0, NoPath, "Error", TRUE) }

AddReasons == {"", "Already compressed", "Already small"}

InitAdd ==
  /\ \E n \in 0 .. MaxFiles :
       call = [calls |-> 0, named |-> 0,
               stats |-> [Stats0 EXCEPT !.total = n, !.start_time = StartTime,
                                        !.processed_path = "photos"]]
  /\ fs = << >>
  /\ heic = TRUE
  /\ pc = [w \in Workers |-> "off"]
  /\ loc = [w \in Workers |-> IdleLoc]
  /\ ghost = [w \in Workers |-> InitGhost]
  /\ now = StartTime
  /\ lockfile = NoLockFile
  /\ lk = [p \in Procs |-> InitLk]

\* named: the calls so far that were skipped with a reason that is not empty
CallAddResult ==
  /\ call.calls < MaxFiles
  /\ \E result \in AddResults, skipped \in BOOLEAN, reason \in AddReasons :
       call' = [calls |-> call.calls + 1,
                named |-> call.named + (IF skipped /\ reason # "" THEN 1 ELSE 0),
                stats |-> add_result(call.stats, result, skipped, reason)]
  /\ UNCHANGED << workvars, now, lockvars >>

SpecAdd == InitAdd /\ [][CallAddResult]_vars

\* ---------------------------------------------------------------------
\* clean_double_extensions(file_name), called on its own.  A file name is a
\* sequence of pieces: a dot, or a run of characters without a dot.
NamePieces == {".", "my", "HEIC", "heif", "jpg"}

Names == UNION {[1 .. n -> NamePieces] : n \in 0 .. MaxName}

\* str.rfind('.'), counted from 1: 0 when there is no dot
rfind_dot(s) ==
  IF \E i \in 1 .. Len(s) : s[i] = "."
  THEN CHOOSE i \in 1 .. Len(s) : s[i] = "." /\ \A j \in (i + 1) .. Len(s) : s[j] # "."
  ELSE 0

\* file_name[:i] for the dot found at i (counted from 1)
Before(s, i) == SubSeq(s, 1, i - 1)

\* last_dot_index <= 0 and second_last_dot > 0 of the code count from 0: the
\* dot is missing or first when its place counted from 1 is at most 1
clean_double_extensions(file_name) ==
  LET last_dot_index == rfind_dot(file_name) IN
  IF last_dot_index <= 1 THEN file_name
  ELSE LET before_last_dot == Before(file_name, last_dot_index)
           second_last_dot == rfind_dot(before_last_dot)
       IN IF second_last_dot > 1
          THEN Before(before_last_dot, second_last_dot)
          ELSE before_last_dot

InitClean ==
  /\ \E n \in Names : call = [done |-> FALSE, name |-> n, result |-> << >>]
  /\ fs = << >>
  /\ heic = TRUE
  /\ pc = [w \in Workers |-> "off"]
  /\ loc = [w \in Workers |-> IdleLoc]
  /\ ghost = [w \in Workers |-> InitGhost]
  /\ now = StartTime
  /\ lockfile = NoLockFile
  /\ lk = [p \in Procs |-> InitLk]

CallClean ==
  /\ ~call.done
  /\ call' = [call EXCEPT !.done = TRUE, !.result = clean_double_extensions(call.name)]
  /\ UNCHANGED << workvars, now, lockvars >>

SpecClean == InitClean /\ [][CallClean]_vars

\* =====================================================================
\* Properties
\* =====================================================================

\* compress_image_safe(replace_mode=True) has returned to process_single_file
ReplaceReturned(w) ==
  /\ pc[w] = "returned"
  /\ loc[w].replace
  /\ loc[w].ret.has_result

\* ... after the backup was created, with a failure outcome
RolledBack(w) ==
  /\ ReplaceReturned(w)
  /\ ghost[w].backed
  /\ ~loc[w].ret.result.success

HoldsPre(w, p) == Exists(fs, p) /\ fs[p] = ghost[w].pre

\* C1 as stated: after a failed replace-mode compression that had created the
\* backup, the original path holds the bytes it held before the call, however
\* the compression and the restore failed.
C1_RollbackAlways ==
  \A w \in Workers : RolledBack(w) => HoldsPre(w, loc[w].file)

\* C1 amended: after a failed replace-mode compression that had created the
\* backup, the original path holds the bytes it held before the call when
\* shutil.move restored the backup; when the move failed (the error is passed)
\* the pre-call bytes are in the .bak file.
C1_Rollback ==
  \A w \in Workers :
    RolledBack(w) =>
      /\ ghost[w].restored \in {"ok", "failed"}
      /\ ghost[w].restored = "ok" => HoldsPre(w, loc[w].file)
      /\ ghost[w].restored = "failed" => HoldsPre(w, BakOf(loc[w].file))

\* the save truncated the original, the call failed and the backup came back
C1_Witness ==
  \E w \in Workers :
    /\ RolledBack(w)
    /\ ghost[w].touched
    /\ ghost[w].restored = "ok"
    /\ HoldsPre(w, loc[w].file)

\* the positions of compress_image_safe(replace_mode=True) between two of its
\* file operations
InReplace(w) ==
  /\ loc[w].replace
  /\ pc[w] \in {"backup", "ci_check", "ci_open", "ci_save", "ci_measure",
                "ci_mark", "restore", "remark", "commit"}

\* C2: at every point between two file operations of a replace-mode call, up
\* to the commit, the bytes the original had are at the original path or at
\* the .bak path; and the original path is written only once the backup copy
\* has completed.
C2_CrashSafe ==
  \A w \in Workers :
    /\ (InReplace(w) /\ ghost[w].existed /\ ~ghost[w].committed)
         => (HoldsPre(w, loc[w].file) \/ HoldsPre(w, BakOf(loc[w].file)))
    /\ (loc[w].replace /\ ghost[w].touched) => ghost[w].backed

\* the original path holds a truncated file and the backup is the only copy
C2_Witness ==
  \E w \in Workers :
    /\ InReplace(w)
    /\ pc[w] = "restore"
    /\ ghost[w].existed
    /\ fs[loc[w].file] = Corrupt
    /\ HoldsPre(w, BakOf(loc[w].file))

\* C3: when the copy to the .bak path fails, the call returns the failure
\* outcome "Failed to create backup" and has neither entered compress_image
\* nor written, moved or deleted the original: its bytes are unchanged.
C3_BackupFailure ==
  \A w \in Workers :
    ghost[w].copy_failed =>
      /\ pc[w] = "returned"
      /\ loc[w].ret.has_result
      /\ ~loc[w].ret.result.success
      /\ loc[w].ret.result.message = "Failed to create backup"
      /\ ~ghost[w].compressed
      /\ ~ghost[w].touched
      /\ ghost[w].existed => HoldsPre(w, loc[w].file)
      /\ ~ghost[w].existed => ~Exists(fs, loc[w].file)

\* the copy failed part-way on an existing original
C3_Witness ==
  \E w \in Workers :
    /\ ghost[w].copy_failed
    /\ ghost[w].existed
    /\ Exists(fs, BakOf(loc[w].file))
    /\ fs[BakOf(loc[w].file)] = Corrupt
    /\ HoldsPre(w, loc[w].file)

\* a worker is inside the backup / compress / commit-or-rollback steps
InProtocol(w) ==
  /\ loc[w].replace
  /\ pc[w] \in {"ci_check", "ci_open", "ci_save", "ci_measure", "ci_mark",
                "restore", "remark", "commit", "dates_bak"}

\* C4: two workers given the same path are never both inside the backup /
\* compress / commit-or-rollback steps of replace mode.
C4_ExclusiveProtocol ==
  \A w1, w2 \in Workers :
    (w1 # w2 /\ loc[w1].file = loc[w2].file) => ~(InProtocol(w1) /\ InProtocol(w2))

\* C5: at most one process is between a successful _acquire_lock and its
\* _release_lock.
C5_LockExclusive ==
  Cardinality({p \in Procs : lk[p].held}) <= 1

\* C6: in copy mode no two workers settle on the same output path.
C6_DistinctOutputs ==
  \A w1, w2 \in Workers :
    (w1 # w2 /\ ghost[w1].chosen # NoPath /\ ghost[w2].chosen # NoPath)
      => ghost[w1].chosen # ghost[w2].chosen

\* the names of the sequence: name_compressed.ext, name_compressed_1.ext, ...
IsPrefix(S, e) == S = {Out(k, e) : k \in 0 .. (Cardinality(S) - 1)}

\* C7: the output path the name search settles on is the first name of the
\* sequence that did not exist (with n existing names and no gap: number n),
\* and every file that was in the output directory keeps its contents.
C7_FirstUnusedName ==
  \A w \in Workers :
    /\ ghost[w].chosen # NoPath =>
         /\ ghost[w].chosen \notin ghost[w].outdir0
         /\ \A k \in 0 .. (ghost[w].chosen.n - 1) :
              Out(k, ghost[w].chosen.ext) \in ghost[w].outdir0
         /\ IsPrefix(ghost[w].outdir0, ghost[w].chosen.ext)
              => ghost[w].chosen.n = Cardinality(ghost[w].outdir0)
    /\ \A p \in ghost[w].outdir0 : Exists(fs, p) /\ fs[p] = OldFile

\* all of name_compressed ... name_compressed_99 existed, number 100 was
\* chosen and written
C7_Witness ==
  \E w \in Workers :
    /\ ghost[w].chosen = Out(max_attempts, ".jpg")
    /\ Cardinality(ghost[w].outdir0) = max_attempts
    /\ pc[w] = "returned"
    /\ loc[w].ret.result.success
    /\ loc[w].ret.result.saved_path = Out(max_attempts, ".jpg")
    /\ Exists(fs, Out(max_attempts, ".jpg"))

MsgExhausted == "Failed to generate unique filename after 100 attempts"

\* every name the search generates existed when the call began
AllTaken(w) ==
  \A k \in 0 .. max_attempts : Out(k, OutExt(loc[w].file.ext)) \in ghost[w].outdir0

OutFiles == {p \in DOMAIN fs : p.kind = "out"}

\* C8: the name search runs at most 100 iterations; when every name it
\* generates exists the call returns the failure outcome "Failed to generate
\* unique filename after 100 attempts", compress_image is not entered and no
\* file is written.
C8_NameExhaustion ==
  \A w \in Workers :
    /\ loc[w].attempt <= max_attempts
    /\ (pc[w] = "returned" /\ ~loc[w].replace /\ ghost[w].outdir0 # {} /\ AllTaken(w)) =>
         /\ loc[w].ret.has_result
         /\ ~loc[w].ret.result.success
         /\ loc[w].ret.result.message = MsgExhausted
    /\ (~loc[w].replace /\ ghost[w].outdir0 # {} /\ AllTaken(w)) =>
         /\ ~ghost[w].compressed
         /\ OutFiles = ghost[w].outdir0
         /\ \A p \in OutFiles : fs[p] = OldFile
         /\ HoldsPre(w, loc[w].file)
    /\ (pc[w] = "returned" /\ loc[w].ret.has_result
          /\ loc[w].ret.result.message = MsgExhausted) => AllTaken(w)

\* the search gave up after its 100 iterations
C8_Witness ==
  \E w \in Workers :
    /\ pc[w] = "returned"
    /\ loc[w].attempt = max_attempts
    /\ AllTaken(w)
    /\ loc[w].ret.result.message = MsgExhausted

\* C9: a second run, without force, on the file a successful run left is
\* skipped as "Already compressed" and leaves the file's bytes unchanged.
C9_Idempotent ==
  \A w \in Workers :
    (loc[w].run = 2 /\ pc[w] = "returned" /\ ghost[w].ok1) =>
      /\ loc[w].ret.skipped
      /\ loc[w].ret.skip_reason = "Already compressed"
      /\ Exists(fs, loc[w].file)
      /\ fs[loc[w].file] = ghost[w].after1

\* C10: the output of an efficient compress_image carries a well-formed
\* marker with the quality used.
C10_OutputMarked ==
  \A w \in Workers :
    (pc[w] \in {"commit", "dates_out"} /\ loc[w].result.success
       /\ loc[w].result.saved_path # NoPath) =>
      LET info == get_compression_info(fs, loc[w].result.saved_path) IN
      /\ info.is_marked
      /\ info.quality = loc[w].actual_quality

\* compress_image_safe(replace_mode=True) has returned a success with a saved
\* path
ReplaceSucceeded(w) ==
  /\ ReplaceReturned(w)
  /\ loc[w].ret.result.success
  /\ loc[w].ret.result.saved_path # NoPath

\* C11: after a successful replace-mode compression in which no operation
\* failed, the .bak file is gone and the file at the original path carries the
\* modification time the original had before the call.
C11_DatesKept ==
  \A w \in Workers :
    (ReplaceSucceeded(w) /\ ~ghost[w].fault) =>
      /\ ~Exists(fs, BakOf(loc[w].file))
      /\ Exists(fs, loc[w].file)
      /\ fs[loc[w].file].mtime = ghost[w].pre.mtime

\* C12: after a completed replace-mode call that found no .bak file on entry,
\* no .bak file exists.
C12_NoBackupLeft ==
  \A w \in Workers :
    (ReplaceReturned(w) /\ ~ghost[w].bak0) => ~Exists(fs, BakOf(loc[w].file))

\* C13: should_recompress is true for a file that is not marked, and for a
\* marked file exactly when its modification time exceeds the marker's
\* timestamp (milliseconds) by more than TIME_DIFFERENCE_ALLOWED_SECONDS.
C13_DriftRecompress ==
  (call.done /\ call.op = "should_recompress") =>
    LET info == get_compression_info(fs, MarkerFile)
        drifted == fs[MarkerFile].mtime * 1000 - info.timestamp
                     > TIME_DIFFERENCE_ALLOWED_SECONDS * 1000
    IN call.recompress = (~info.is_marked \/ drifted)

\* a text int() takes for a number of the exact form: digits, or "-" and digits
Numeral(t) ==
  LET d == IF t # << >> /\ t[1] = "-" THEN Tail(t) ELSE t
  IN d # << >> /\ \A i \in 1 .. Len(d) : d[i] \in Range(DigitChars)

\* the text is exactly <MAGIC>:<int>:<int>
ExactForm(c) ==
  /\ Len(c) >= 5
  /\ c[1] = EXIF_COMPRESSION_MARKER
  /\ c[2] = ":"
  /\ \E i \in 4 .. (Len(c) - 1) :
       /\ c[i] = ":"
       /\ Numeral(SubSeq(c, 3, i - 1))
       /\ Numeral(SubSeq(c, i + 1, Len(c)))

GotInfo == call.done /\ call.op = "get_compression_info"

\* C14 as stated: whenever the user comment is not exactly
\* <MAGIC>:<int quality>:<int timestamp> (no EXIF block, no comment, another
\* prefix, text after the prefix or after the timestamp, a field that is no
\* integer), get_compression_info returns (False, -1, 0).
C14_ExactFormOnly ==
  GotInfo =>
    LET e == read_exif_data(fs, MarkerFile) IN
    ~(e.ok /\ ExactForm(e.comment)) => call.info = NotMarked

\* the places of the ":" in a text, in order
Colons(c) == {i \in 1 .. Len(c) : c[i] = ":"}
ColonsBefore(c, i) == Cardinality({j \in Colons(c) : j < i})
NthColon(c, n) ==
  IF Cardinality(Colons(c)) >= n
  THEN CHOOSE i \in Colons(c) : ColonsBefore(c, i) = n - 1
  ELSE Len(c) + 1
Between(c, n) == SubSeq(c, NthColon(c, n) + 1, NthColon(c, n + 1) - 1)

\* C14 amended: get_compression_info returns is_marked=True exactly when the
\* comment starts with the magic prefix, holds two ":" at least, and the text
\* between the first and the second ":" and the text between the second and
\* the third ":" (or the end) are accepted by int(); it then returns these
\* two numbers; in every other case it returns (False, -1, 0).
C14_MarkerParsing ==
  GotInfo =>
    LET e == read_exif_data(fs, MarkerFile)
        c == e.comment
        lenient == /\ e.ok
                   /\ Len(c) >= 1
                   /\ c[1] = EXIF_COMPRESSION_MARKER
                   /\ Cardinality(Colons(c)) >= 2
                   /\ int_ok(Between(c, 1))
                   /\ int_ok(Between(c, 2))
    IN IF lenient
       THEN call.info = [is_marked |-> TRUE, quality |-> int(Between(c, 1)),
                         timestamp |-> int(Between(c, 2))]
       ELSE call.info = NotMarked

\* a comment with text after the prefix and a field after the timestamp is
\* taken for a marker
C14_Witness ==
  /\ GotInfo
  /\ call.info = [is_marked |-> TRUE, quality |-> 60, timestamp |-> 0]
  /\ fs[MarkerFile].exif.comment =
       << EXIF_COMPRESSION_MARKER, "x", ":", "6", "0", ":", "0", ":", "x" >>

\* C15: the marker add_compression_marker has written with quality q at
\* timestamp t is read back by get_compression_info as (True, q, t).
C15_MarkerRoundTrip ==
  (GotInfo /\ call.stamped) =>
    call.info = [is_marked |-> TRUE, quality |-> call.q, timestamp |-> call.ts]

\* quality 99 stamped at StartTime is read back
C15_Witness ==
  /\ GotInfo
  /\ call.stamped
  /\ call.q = 99
  /\ call.ts = StartTime * 1000
  /\ call.info = [is_marked |-> TRUE, quality |-> 99, timestamp |-> StartTime * 1000]

\* C16: is_compression_efficient(o, c) is true exactly when o > 0, the
\* reduction in percent of o is at least MIN_COMPRESSION_SAVING_PERCENT and
\* the reduction o - c is at least MIN_BYTES_SAVING.
C16_EfficiencyGate ==
  call.done =>
    call.result = (/\ call.o > 0
                   /\ \A pct \in 0 .. 100 :
                        (pct * call.o <= (call.o - call.c) * 100
                           /\ (call.o - call.c) * 100 < (pct + 1) * call.o)
                          => pct >= MIN_COMPRESSION_SAVING_PERCENT
                   /\ call.c <= call.o
                   /\ call.o - call.c >= MIN_BYTES_SAVING)

\* a reduction of exactly MIN_COMPRESSION_SAVING_PERCENT is efficient
C16_Witness ==
  /\ call.done
  /\ call.o = 10
  /\ call.c = 7
  /\ (call.o - call.c) * 100 = MIN_COMPRESSION_SAVING_PERCENT * call.o
  /\ call.result

\* find_optimal_quality has returned (process_single_file is about to call
\* compress_image_safe) and its trials were recorded
SearchDone(w) == pc[w] = "safe" /\ ghost[w].keep_probes

\* the trials that gave a size of at least MIN_COMPRESSION_RATIO of the original
AboveFloor(w) ==
  {i \in 1 .. Len(ghost[w].probed) :
     /\ ghost[w].probed[i].c >= 0
     /\ ghost[w].probed[i].c * 100 >= MIN_COMPRESSION_RATIO_PCT * loc[w].fo_size}

\* C17 as stated: find_optimal_quality returns the quality of a probed
\* candidate of smallest size among those whose ratio is at least
\* MIN_COMPRESSION_RATIO, the default when there is none, and always one of
\* 50, 60, 70, 80, 90 or the default.
C17_SmallestAboveFloor ==
  \A w \in Workers :
    SearchDone(w) =>
      LET h == ghost[w].probed
          q == loc[w].actual_quality
      IN /\ q \in {50, 60, 70, 80, 90, DEFAULT_COMPRESSION_QUALITY}
         /\ IF AboveFloor(w) = {} THEN q = DEFAULT_COMPRESSION_QUALITY
            ELSE \E i \in AboveFloor(w) :
                   /\ h[i].q = q
                   /\ \A j \in AboveFloor(w) : h[i].c <= h[j].c

\* ... and a size below the original's (ratio < 1.0)
Shrinking(w) == {i \in AboveFloor(w) : ghost[w].probed[i].c < loc[w].fo_size}

\* C17 amended: find_optimal_quality returns the quality of the first probed
\* candidate of smallest size among those whose ratio is at least
\* MIN_COMPRESSION_RATIO and below 1.0, the default when there is none, and
\* always one of 50, 60, 70, 80, 90 or the default.
C17_SmallestShrinking ==
  \A w \in Workers :
    SearchDone(w) =>
      LET h == ghost[w].probed
          q == loc[w].actual_quality
      IN /\ q \in {50, 60, 70, 80, 90, DEFAULT_COMPRESSION_QUALITY}
         /\ IF Shrinking(w) = {} THEN q = DEFAULT_COMPRESSION_QUALITY
            ELSE \E i \in Shrinking(w) :
                   /\ h[i].q = q
                   /\ \A j \in Shrinking(w) : h[i].c <= h[j].c
                   /\ \A j \in Shrinking(w) : h[j].c = h[i].c => i <= j

\* quality 70 gave 6 of 20, quality 60 gave 1 of 20, below the floor: 70
C17_Witness ==
  \E w \in Workers :
    /\ SearchDone(w)
    /\ loc[w].fo_size = 20
    /\ ghost[w].probed = << [q |-> 70, c |-> 6], [q |-> 60, c |-> 1] >>
    /\ loc[w].actual_quality = 70

\* the trial gave a ratio below 0.3
LowRatio(w, i) ==
  /\ ghost[w].probed[i].c >= 0
  /\ ghost[w].probed[i].c * 10 < 3 * loc[w].fo_size

\* C18: the candidates are probed in the order 70, 60, 80, 50, 90, five at
\* most; no probe follows a candidate whose ratio is below 0.3; and the search
\* ends only on such a candidate or after the fifth probe (a trial without a
\* result does not end it).
C18_ProbeOrder ==
  \A w \in Workers :
    ghost[w].keep_probes =>
      LET h == ghost[w].probed IN
      /\ Len(h) <= 5
      /\ Len(h) = loc[w].probes
      /\ \A i \in 1 .. Len(h) : h[i].q = << 70, 60, 80, 50, 90 >>[i]
      /\ \A i \in 1 .. (Len(h) - 1) : ~LowRatio(w, i)
      /\ pc[w] = "safe" => (Len(h) = 5 \/ LowRatio(w, Len(h)))

\* the first trial gave no result, the third a ratio below 0.3
C18_Witness ==
  \E w \in Workers :
    /\ SearchDone(w)
    /\ Len(ghost[w].probed) = 3
    /\ ghost[w].probed[1].c < 0
    /\ ~LowRatio(w, 2)
    /\ LowRatio(w, 3)

\* compress_image has returned "not efficient" and no file operation of the
\* call failed
NotEfficientReturned(w) ==
  /\ pc[w] = "returned"
  /\ loc[w].ret.has_result
  /\ loc[w].ret.result.success
  /\ loc[w].ret.result.saved_path = NoPath
  /\ SaysNotEfficient(loc[w].ret.result.message)
  /\ ~ghost[w].fault

\* C19: when compress_image, given an output path other than the original,
\* finds the compression not efficient, the output file does not exist
\* afterwards, the original carries a compression marker, and the outcome is
\* success with no saved path and a message saying "not efficient".
C19_NotEfficientCopy ==
  \A w \in Workers :
    (pc[w] = "returned" /\ ~loc[w].replace /\ loc[w].ret.has_result
       /\ loc[w].ret.result.success /\ loc[w].ret.result.saved_path = NoPath
       /\ ~ghost[w].fault) =>
      /\ SaysNotEfficient(loc[w].ret.result.message)
      /\ ~Exists(fs, loc[w].ci_out)
      /\ Exists(fs, loc[w].file)
      /\ get_compression_info(fs, loc[w].file).is_marked

\* C20: after a replace-mode run that found the compression not efficient,
\* the original path holds the original image data and a valid marker, so
\* that a later run without force skips the file.
C20_NotEfficientReplace ==
  \A w \in Workers :
    (NotEfficientReturned(w) /\ loc[w].replace) =>
      /\ Exists(fs, loc[w].file)
      /\ fs[loc[w].file].img = ghost[w].pre.img
      /\ fs[loc[w].file].fmt = ghost[w].pre.fmt
      /\ fs[loc[w].file].enc = ghost[w].pre.enc
      /\ get_compression_info(fs, loc[w].file).is_marked
      /\ ~should_recompress(fs, loc[w].file)

\* compress_image was called and has returned to compress_image_safe
CompressReturned(w) ==
  /\ ghost[w].compressed
  /\ \/ pc[w] \in {"restore", "commit", "dates_out"}
     \/ pc[w] = "returned" /\ loc[w].ret.has_result

\* the steps whose exception reaches the handler of lines 300-301
Propagating == {"decode", "encode"}

\* C21 as stated: compress_image always returns a CompressionResult, and
\* every exception raised inside it gives success=False with an error message.
C21_EveryExceptionFails ==
  \A w \in Workers :
    CompressReturned(w) =>
      /\ loc[w].result # NoResult
      /\ ghost[w].ci_exc # {} =>
           (~loc[w].result.success /\ loc[w].result.message = "Error")

\* C21 amended: compress_image always returns a CompressionResult; an
\* exception of the decoding or of the save gives success=False with an error
\* message, while an exception of piexif.dump or of os.remove(output_path) is
\* handled where it is raised and gives no error outcome.
C21_NeverRaises ==
  \A w \in Workers :
    CompressReturned(w) =>
      /\ loc[w].result # NoResult
      /\ loc[w].result.message # ""
      /\ (ghost[w].ci_exc \cap Propagating # {}) <=>
           (~loc[w].result.success /\ loc[w].result.message = "Error")

\* the save raised and compress_image returned the error outcome
C21_Witness ==
  \E w \in Workers :
    /\ CompressReturned(w)
    /\ "encode" \in ghost[w].ci_exc
    /\ loc[w].result = ExceptionResult

\* the worker function has returned its tuple
Finished(w) == pc[w] = "returned"

\* the tuple is a result, a skip with its reason, or an error message
TupleReturned(w) ==
  LET r == loc[w].ret IN
  /\ Finished(w)
  /\ r.error # "" => (~r.has_result /\ ~r.skipped)
  /\ r.skipped => (r.skip_reason # "" /\ r.error = "")
  /\ (~r.skipped /\ r.error = "") => (r.has_result /\ r.result # NoResult)

C23_OneRecordPerFile ==
  call.phase = "summary" =>
    /\ \A i \in 1 .. call.n : call.fut[i] = "collected" /\ call.adds[i] = 1
    /\ call.stats.processed = call.n
    /\ call.stats.processed = call.stats.total

\* three files: a "not efficient" result, a worker error and an exception of
\* the future, all recorded at the summary
C23_Witness ==
  /\ call.phase = "summary"
  /\ call.n = 3
  /\ call.outcome[1].ret.result.message = MsgNotEfficient
  /\ call.outcome[2].ret.error # ""
  /\ call.outcome[3].exc
  /\ call.stats.processed = 3

\* the handled futures, as a set: the order of handling is forgotten
Collected == {i \in 1 .. call.n : call.fut[i] = "collected"}

\* the record add_result is given for file i
RecordOf(i) ==
  LET f == call.outcome[i] IN
  IF f.exc \/ f.ret.error # ""
  THEN [result |-> Result(FALSE, SizeOf(i), 0, NoPath, "", TRUE), skipped |-> FALSE, reason |-> ""]
  ELSE IF f.ret.skipped
  THEN [result |-> Result(FALSE, SizeOf(i), 0, NoPath, "", TRUE), skipped |-> TRUE,
        reason |-> f.ret.skip_reason]
  ELSE [result |-> f.ret.result, skipped |-> FALSE, reason |-> ""]

RECURSIVE SumOver(_, _)
SumOver(S, orig) ==
  IF S = {} THEN 0
  ELSE LET i == CHOOSE x \in S : TRUE
       IN (IF orig THEN RecordOf(i).result.original_size
           ELSE RecordOf(i).result.compressed_size) + SumOver(S \ {i}, orig)

\* C25: whatever the order in which the records were folded with add_result,
\* processed, skipped, success, failed, the two byte totals and the count of
\* every skip reason are those of the set of records.
C25_OrderIndependent ==
  call.phase \in {"pool", "summary"} =>
    LET st == call.stats
        S == Collected
        skip == {i \in S : RecordOf(i).skipped}
        good == {i \in S \ skip : RecordOf(i).result.success}
    IN /\ st.processed = Cardinality(S)
       /\ st.skipped = Cardinality(skip)
       /\ st.success = Cardinality(good)
       /\ st.failed = Cardinality((S \ skip) \ good)
       /\ st.original_size_total = SumOver(good, TRUE)
       /\ st.compressed_size_total = SumOver(good, FALSE)
       /\ DOMAIN st.skipped_reasons = {RecordOf(i).reason : i \in skip} \ {""}
       /\ \A r \in DOMAIN st.skipped_reasons :
            st.skipped_reasons[r] = Cardinality({i \in skip : RecordOf(i).reason = r})

\* the third file was handled first, the first last; two successes of
\* different sizes and a skip
C25_Witness ==
  /\ call.phase = "summary"
  /\ call.order = << 3, 2, 1 >>
  /\ call.stats.success = 2
  /\ call.stats.skipped = 1
  /\ call.stats.original_size_total = SizeOf(1) + SizeOf(3)

RECURSIVE CallsDone(_)
CallsDone(S) ==
  IF S = {} THEN 0
  ELSE LET p == CHOOSE x \in S : TRUE IN call.calls[p] + CallsDone(S \ {p})

\* C24: whatever the interleaving of the add_result calls of the orchestrator
\* and of the workers, no update is lost: after N completed calls the
\* statistics the orchestrator prints have processed = N.
C24_NoLostUpdate ==
  call.holder = NoHolder => call.copy[0].processed = CallsDone(StatsProcs)

\* process p is inside _acquire_lock
Acquiring(p) == lk[p].at \in {"try", "stale", "rm", "timeout"}

\* C26 as stated: _acquire_lock ends by returning with the lock held or by
\* raising FileLockTimeoutError once the timeout has elapsed since the call
\* began; here, the second half: it raises only after the timeout.
C26_RaisesAfterTimeout ==
  \A p \in Procs : lk[p].exit \in {"timeout", "error"} => lk[p].waited >= Timeout

\* the clock of the model reaches start_time + Timeout
ClockCovers(p) == lk[p].start_time + Timeout <= MaxTicks * TickLen

\* C26 amended: every call of _acquire_lock ends, whatever the other users of
\* the lock do: with the lock held, with FileLockTimeoutError once the timeout
\* has elapsed since the call began, or at once with FileLockTimeoutError
\* when os.open fails with an error other than EEXIST.
C26_BoundedWait ==
  /\ \A p \in Procs : (Acquiring(p) /\ ClockCovers(p)) ~> ~Acquiring(p)
  /\ [](\A p \in Procs : lk[p].exit = "timeout" => lk[p].waited >= Timeout)

\* the lock stayed with the other process and the call raised after the timeout
C26_Witness ==
  \E p, q \in Procs :
    /\ p # q
    /\ lk[q].held
    /\ lk[p].exit = "timeout"
    /\ lk[p].waited >= Timeout

\* process p leaves its with block in this step
Leaves(p) == lk[p].at \in {"in", "unlink"} /\ lk'[p].at = "out"

\* C27 as stated: when a with FileLock(path) block is left, normally or by an
\* exception, the lock file no longer exists.
C27_ReleasedOnExit ==
  [][\A p \in Procs : Leaves(p) => lockfile' = NoLockFile]_vars

\* C27 amended: when a with FileLock(path) block is left, normally or by an
\* exception, the lock file no longer exists unless os.remove failed on it;
\* once it does not exist the next os.open of an acquirer that does not fail
\* takes the lock; the exception of the body leaves the with statement.
C27_ReleaseAttempted ==
  [][\A p \in Procs :
       /\ Leaves(p) => /\ lockfile' = NoLockFile \/ lk'[p].rm_failed
                       /\ lk'[p].propagated = lk'[p].body_exc
                       /\ ~lk'[p].held
       /\ (lk[p].at = "try" /\ lockfile = NoLockFile /\ lk'[p].at # "try")
            => (lk'[p].at = "in" /\ lk'[p].held) \/ lk'[p].exit = "error"]_vars

\* a block was left by an exception, the lock file was removed, and the other
\* process took the lock afterwards
C27_Witness ==
  \E p, q \in Procs :
    /\ p # q
    /\ lk[p].at = "out" /\ lk[p].body_exc /\ lk[p].propagated /\ ~lk[p].rm_failed
    /\ lk[p].exit = "held"
    /\ lk[q].held
    /\ lockfile > lk[p].start_time

\* add_compression_marker was given a source block and wrote the file
StampedFromSource == call.calls > 0 /\ call.returned /\ call.with_source

\* C28 as stated: after add_compression_marker(target, quality, source_exif)
\* the target has every tag of the source, every tag it had before that the
\* source does not define, and the fresh marker as its user comment.
C28_Merged ==
  StampedFromSource =>
    LET e == read_exif_data(fs, MarkerFile) IN
    /\ call.source_tags \subseteq e.tags
    /\ (call.own_tags \ call.source_tags) \subseteq e.tags
    /\ e.comment = MarkerComment(call.q, call.ts)

\* C28 amended: after add_compression_marker(target, quality, source_exif)
\* has written the target, its tags are the tags of the source, a tag the
\* target alone had is gone, and the user comment is the fresh marker.
C28_SourceReplaces ==
  StampedFromSource =>
    LET e == read_exif_data(fs, MarkerFile) IN
    /\ e.ok
    /\ e.tags = call.source_tags
    /\ e.comment = MarkerComment(call.q, call.ts)

\* the target had a tag the source does not define
C28_Witness ==
  /\ StampedFromSource
  /\ call.own_tags \ call.source_tags # {}
  /\ call.source_tags # {}

\* C29: when the stamp of compress_image returned False the result is still
\* a success, with metadata_preserved set to False.
C29_StampFailureDegrades ==
  \A w \in Workers :
    (CompressReturned(w) /\ ghost[w].stamp_failed) =>
      /\ loc[w].result.success
      /\ ~loc[w].result.metadata_preserved

\* the tag is in the metadata block read_exif_data returns
TagInBlock(exif, name) == exif.ok /\ name \in exif.tags

\* C30: when compress_image saved a JPEG output and a critical tag of the
\* source's block is missing from the output's block, validate_exif_preservation
\* reports it as present in the source and absent from the target, and the
\* result has metadata_preserved = False.
C30_LostTagReported ==
  \A w \in Workers :
    LET l == loc[w]
        out == l.result.saved_path
    IN (/\ CompressReturned(w)
        /\ l.result.success
        /\ out # NoPath
        /\ Exists(fs, out)
        /\ l.ci_fmt = "JPEG"
        /\ l.source_exif.ok
        /\ \E t \in CameraTags :
             TagInBlock(l.source_exif, t) /\ ~TagInBlock(read_exif_data(fs, out), t))
       => /\ LostTags(l.source_exif, read_exif_data(fs, out)) # {}
          /\ ~l.result.metadata_preserved

\* C31: after a successful compression of a .heic or .heif file the
\* re-encoded JPEG data is stored at a path whose extension is .jpg.
C31_HeicAsJpg ==
  \A w \in Workers :
    LET l == loc[w] IN
    (/\ CompressReturned(w)
     /\ HEIC(l.file.ext)
     /\ l.result.success
     /\ l.result.saved_path # NoPath)
    => l.result.saved_path.ext = ".jpg"

\* worker w runs process_single_file_dry_run (and test_compression in it)
DryRunStep(w) == pc[w] = "dry" /\ pc'[w] = "returned"

\* C32: process_single_file_dry_run and the test_compression it calls leave
\* the file system as it was (the files, their bytes and metadata, no marker
\* added), and the CLI does not create the output directory on a dry run.
C32_DryRunTouchesNothing ==
  [][\A w \in Workers :
       DryRunStep(w) =>
         /\ fs' = fs
         /\ \A given, replace \in BOOLEAN : ~EnsuresOutputDirectory(TRUE, given, replace)]_vars

\* the dry run found a file not worth compressing, and another that the
\* trial could not read; neither carries a marker
C32_Witness ==
  \E w1, w2 \in Workers :
    /\ Finished(w1) /\ Finished(w2)
    /\ loc[w1].ret.skipped /\ loc[w1].ret.skip_reason = "Compression not efficient"
    /\ loc[w1].ret.result.success
    /\ loc[w2].ret.skip_reason = "Test failed"
    /\ ~is_image_compressed(fs, loc[w1].file)
    /\ Exists(fs, loc[w2].file)

\* the files whose compressed output was kept on disk
Kept ==
  {i \in 1 .. call.n :
     LET f == call.outcome[i] IN
     /\ ~f.exc /\ f.ret.error = "" /\ ~f.ret.skipped
     /\ f.ret.has_result /\ f.ret.result.success /\ f.ret.result.saved_path # NoPath}

\* C33: after _run_compression success counts, and the two byte totals sum,
\* exactly the files whose compressed output was kept; skipped, failed and
\* "not efficient" files add nothing.
C33_TotalsOverKept ==
  call.phase = "summary" =>
    /\ call.stats.success = Cardinality(Kept)
    /\ call.stats.original_size_total = SumOver(Kept, TRUE)
    /\ call.stats.compressed_size_total = SumOver(Kept, FALSE)

\* compress_image_safe in copy mode has returned a success with a saved path
CopySucceeded(w) ==
  /\ pc[w] = "returned"
  /\ ~loc[w].replace
  /\ loc[w].ret.has_result
  /\ loc[w].ret.result.success
  /\ loc[w].ret.result.saved_path # NoPath

Lower(piece) == IF piece = "HEIC" THEN "heic" ELSE piece

\* the name ends in a .heic or .heif extension, in any letter case
EndsInHeic(s) ==
  /\ Len(s) >= 2
  /\ s[Len(s) - 1] = "."
  /\ Lower(s[Len(s)]) \in {"heic", "heif"}

\* the name C35 describes: the final extension removed, and a .heic or .heif
\* extension directly before it removed too
CleanedName(s) ==
  IF rfind_dot(s) = 0 THEN s
  ELSE LET base == Before(s, rfind_dot(s)) IN
       IF EndsInHeic(base) THEN SubSeq(base, 1, Len(base) - 2) ELSE base

\* C35: clean_double_extensions removes the final extension and a .heic or
\* .heif extension directly before it, keeps every other dot, returns a name
\* without a dot unchanged and a name that is only an extension as the empty
\* string.
C35_CleanDoubleExtensions ==
  call.done => call.result = CleanedName(call.name)

\* the file of worker w carries a valid marker
ValidMarker(w) == is_image_compressed(fs, loc[w].file)

\* C36: with force process_single_file never returns skipped and always calls
\* compress_image_safe; without force a file with a valid marker is returned
\* as skipped "Already compressed", compress_image_safe is not called and
\* nothing is written.
C36_ForceBypassesSkip ==
  /\ [](\A w \in Workers :
          (pc[w] = "returned" /\ loc[w].force) =>
            ~loc[w].ret.skipped /\ ghost[w].invoked)
  /\ [][\A w \in Workers :
          (pc[w] = "start" /\ ~loc[w].force /\ ValidMarker(w) /\ pc'[w] # "start") =>
            /\ pc'[w] = "returned"
            /\ loc'[w].ret = Ret(FALSE, NoResult, TRUE, "Already compressed", "")
            /\ ~ghost'[w].invoked
            /\ fs' = fs]_vars

\* a file with a valid marker was compressed again under force
C36_Witness ==
  \E w \in Workers :
    /\ pc[w] = "returned"
    /\ loc[w].force
    /\ ghost[w].invoked
    /\ is_image_compressed((loc[w].file :> ghost[w].pre), loc[w].file)
    /\ loc[w].ret.result.success

\* C37: for the sizes of one trial the dry run says "will compress"
\* (CompressionResult.is_efficient) exactly when compress_image finds the
\* compression efficient (is_compression_efficient).
C37_DryRunAgrees ==
  call.done => (is_efficient(call.o, call.c) <=> call.result)

RECURSIVE HistSum(_)
\* the sum of the counts of the skip-reason histogram
HistSum(h) ==
  IF DOMAIN h = {} THEN 0
  ELSE LET r == CHOOSE x \in DOMAIN h : TRUE
       IN h[r] + HistSum([x \in (DOMAIN h) \ {r} |-> h[x]])

Counters ==
  {"processed", "skipped", "success", "failed", "original_size_total",
   "compressed_size_total"}

\* C38: after any sequence of add_result calls processed = skipped + success
\* + failed, no counter or byte total is negative or ever decreases, the
\* counts of the skip reasons sum to the number of skipped calls that gave a
\* reason (at most skipped), and total, the path and the times are unchanged.
C38_StatsInvariant ==
  /\ [](LET st == call.stats IN
        /\ st.processed = st.skipped + st.success + st.failed
        /\ st.processed = call.calls
        /\ \A c \in Counters : st[c] >= 0
        /\ HistSum(st.skipped_reasons) <= st.skipped
        /\ HistSum(st.skipped_reasons) = call.named)
  /\ [][/\ \A c \in Counters : call'.stats[c] >= call.stats[c]
        /\ call'.stats.total = call.stats.total
        /\ call'.stats.processed_path = call.stats.processed_path
        /\ call'.stats.start_time = call.stats.start_time
        /\ call'.stats.end_time = call.stats.end_time]_vars

\* a skip without a reason, a skip with one and a success of size 2 -> 1
C38_Witness ==
  /\ call.calls = 3
  /\ call.stats.skipped = 2
  /\ HistSum(call.stats.skipped_reasons) = 1
  /\ call.stats.success = 1
  /\ call.stats.original_size_total = 2

\* C39: after a copy-mode call with an efficient result the input file is as
\* it was, the files that existed are those of before with their contents,
\* and the one new file is the returned saved_path, in the output directory.
C39_CopyFrame ==
  \A w \in Workers :
    CopySucceeded(w) =>
      LET out == loc[w].ret.result.saved_path
          f == loc[w].file
      IN /\ Exists(fs, f) /\ fs[f] = ghost[w].pre
         /\ out.kind = "out"
         /\ out \notin ghost[w].outdir0
         /\ DOMAIN fs = {f} \cup ghost[w].outdir0 \cup {out}
         /\ \A p \in ghost[w].outdir0 : fs[p] = OldFile

\* the output directory held files of earlier runs, and the input was last
\* modified before the run
C39_Witness ==
  \E w \in Workers :
    /\ CopySucceeded(w)
    /\ Cardinality(ghost[w].outdir0) = MaxPre
    /\ loc[w].ret.result.saved_path = Out(MaxPre, OutExt(loc[w].file.ext))
    /\ fs[loc[w].file].mtime = OldTime

====
